---- MODULE Spec2Model ----
(***************************************************************************)
(* Model of the test-result reconciler of taskautomation                   *)
(* (src/src/taskautomation/run_tests.py).                                  *)
(*                                                                         *)
(* A text is the sequence of its lines, as str.split("\n") yields them and *)
(* "\n".join() puts them back.  A line is a record [k, s, n, b]: k is the  *)
(* shape of the line as the regular expressions and startswith() tests of  *)
(* the code tell lines apart, s, n and b are the text, the number and the  *)
(* checkbox the line carries.  Python's None is NoDate for a date and      *)
(* NoAssignee for an assignee.                                             *)
(***************************************************************************)
EXTENDS Integers, Sequences, FiniteSets, TLC

\* ------------------------------------------------------------------------
\* Alphabets
\* ------------------------------------------------------------------------
Files == {"a.py", "b.py"}

Tests == {"t1", "t2", "t3"}

Statuses == {"PASSED", "FAILED"}

\* The four section priorities, in the order of priority_order.
priority_order == <<"Critical", "High", "Medium", "Low">>

NoDate == 0

NoAssignee == ""

SeparatorLen == 93

\* ------------------------------------------------------------------------
\* Python dict, insertion-ordered: a sequence of [key, val] with distinct keys
\* ------------------------------------------------------------------------
Keys(d) == {d[i].key : i \in 1..Len(d)}

Has(d, k) == k \in Keys(d)

GetVal(d, k) == d[CHOOSE i \in 1..Len(d) : d[i].key = k].val

\* d[k] = v : a present key keeps its position, a new key goes last
Put(d, k, v) ==
    IF Has(d, k)
    THEN [i \in 1..Len(d) |-> IF d[i].key = k THEN [key |-> k, val |-> v] ELSE d[i]]
    ELSE Append(d, [key |-> k, val |-> v])

\* ------------------------------------------------------------------------
\* Lines
\* ------------------------------------------------------------------------
Line(k, s, n, b) == [k |-> k, s |-> s, n |-> n, b |-> b]

\* "- [c] **Fix failing tests in f**:"   (TASK_BLOCK_RE)
HeaderLine(f, c) == Line("header", f, 0, c)

\* "- [c] **title**:" of a task that is no test task: starts with "- ["
OtherTaskLine(title, c) == Line("task", title, 0, c)

IdLine(id) == Line("id", "", id, FALSE)

\* "  - **Description**: Fix n failing test(s) in f"
DescriptionLine(n, f) == Line("description", f, n, FALSE)

PrereqKeyLine == Line("prereqkey", "", 0, FALSE)

PrereqNoneLine == Line("prereqnone", "", 0, FALSE)

PriorityLine(p) == Line("priority", p, 0, FALSE)

EstimatedTimeLine == Line("estimated", "30 minutes", 0, FALSE)

\* the text after "**Assignee**: "
AssigneeLine(txt) == Line("assignee", txt, 0, FALSE)

\* a date line carries the date, NoDate standing for the text "None"
CreateDateLine(d) == Line("create", "", d, FALSE)

StartDateLine(d) == Line("start", "", d, FALSE)

FinishDateLine(d) == Line("finish", "", d, FALSE)

SubtasksKeyLine == Line("subkey", "", 0, FALSE)

\* "    - [c] Fix name"   (SUBTASK_RE; the parser drops the "Fix " prefix)
SubtaskLine(name, c) == Line("sub", name, 0, c)

BlankLine == Line("blank", "", 0, FALSE)

\* a line of n dashes
DashLine(n) == Line("dash", "", n, FALSE)

\* "## p Priority Tasks"
SectionLine(p) == Line("section", p, 0, FALSE)

ArchiveLine == Line("archive", "", 0, FALSE)

ArchiveNoteLine == Line("archivenote", "", 0, FALSE)

\* any other line
TextLine(s) == Line("text", s, 0, FALSE)

\* line.startswith("---") and len(line.strip()) > 10
IsSeparator(line) == line.k = "dash" /\ line.n > 10

\* ------------------------------------------------------------------------
\* pytest output -> grouped results
\* ------------------------------------------------------------------------
TestResult(f, t, s) == [file_path |-> f, test_name |-> t, status |-> s]

RECURSIVE FilterStatus(_, _)
FilterStatus(output, s) ==
    IF output = <<>> THEN <<>>
    ELSE IF Head(output).status = s
         THEN <<Head(output)>> \o FilterStatus(Tail(output), s)
         ELSE FilterStatus(Tail(output), s)

\* every FAILED line in text order, then every PASSED line in text order
parse_test_results(output) == FilterStatus(output, "FAILED") \o FilterStatus(output, "PASSED")

RECURSIVE GroupFrom(_, _)
GroupFrom(results, by_file) ==
    IF results = <<>> THEN by_file
    ELSE LET r == Head(results)
             old == IF Has(by_file, r.file_path) THEN GetVal(by_file, r.file_path) ELSE <<>>
         IN GroupFrom(Tail(results),
                      Put(by_file, r.file_path, Put(old, r.test_name, r.status)))

group_results_by_file(results) == GroupFrom(results, <<>>)

\* ------------------------------------------------------------------------
\* parse_existing_tasks
\* ------------------------------------------------------------------------
TaskInfo(f, c, id, p, a, cd, sd, fd, subs) ==
    [file_path |-> f, checked |-> c, task_id |-> id, priority |-> p, assignee |-> a,
     create_date |-> cd, start_date |-> sd, finish_date |-> fd, subtasks |-> subs]

\* the text "None" is None, any other text is itself
AssigneeOfText(txt) == IF txt = "None" THEN NoAssignee ELSE txt

\* the inner loop: the lines after a header up to the line that ends the block
RECURSIVE ParseBody(_, _, _, _)
ParseBody(lines, i, t, in_subtasks_section) ==
    IF i > Len(lines) THEN [i |-> i, t |-> t]
    ELSE LET line == lines[i] IN
        IF line.k = "id"
        THEN ParseBody(lines, i + 1, [t EXCEPT !.task_id = line.n], in_subtasks_section)
        ELSE IF line.k = "priority"
        THEN ParseBody(lines, i + 1, [t EXCEPT !.priority = line.s], in_subtasks_section)
        ELSE IF line.k = "assignee"
        THEN ParseBody(lines, i + 1, [t EXCEPT !.assignee = AssigneeOfText(line.s)],
                       in_subtasks_section)
        ELSE IF line.k = "create"
        THEN ParseBody(lines, i + 1, [t EXCEPT !.create_date = line.n], in_subtasks_section)
        ELSE IF line.k = "start"
        THEN ParseBody(lines, i + 1, [t EXCEPT !.start_date = line.n], in_subtasks_section)
        ELSE IF line.k = "finish"
        THEN ParseBody(lines, i + 1, [t EXCEPT !.finish_date = line.n], in_subtasks_section)
        ELSE IF line.k = "subkey"
        THEN ParseBody(lines, i + 1, t, TRUE)
        ELSE IF in_subtasks_section /\ line.k = "sub"
        THEN ParseBody(lines, i + 1, [t EXCEPT !.subtasks = Put(@, line.s, line.b)],
                       in_subtasks_section)
        ELSE IF line.k = "blank" \/ line.k \in {"header", "task"}
        THEN [i |-> i, t |-> t]
        ELSE ParseBody(lines, i + 1, t, in_subtasks_section)

\* tasks[file_path] = info
SetTask(tasks, f, info) ==
    [g \in (DOMAIN tasks) \cup {f} |-> IF g = f THEN info ELSE tasks[g]]

NoTasks == [g \in {} |-> 0]

RECURSIVE ParseFrom(_, _, _)
ParseFrom(lines, i, tasks) ==
    IF i > Len(lines) THEN tasks
    ELSE IF lines[i].k = "header"
    THEN LET r == ParseBody(lines, i + 1,
                            TaskInfo(lines[i].s, lines[i].b, -1, "Critical", NoAssignee,
                                     NoDate, NoDate, NoDate, <<>>),
                            FALSE)
         IN ParseFrom(lines, r.i,
                      IF ~lines[i].b THEN SetTask(tasks, lines[i].s, r.t) ELSE tasks)
    ELSE ParseFrom(lines, i + 1, tasks)

\* only the tasks that are not checked are returned
parse_existing_tasks(task_text) == ParseFrom(task_text, 1, NoTasks)

\* ------------------------------------------------------------------------
\* get_next_task_id
\* ------------------------------------------------------------------------
\* ID_RE finds "- **ID**: " followed by digits anywhere in the text
IdMatches(task_text) ==
    {task_text[i].n : i \in {j \in 1..Len(task_text) :
                                 task_text[j].k = "id" /\ task_text[j].n >= 0}}

SetMax(S) == IF S = {} THEN 0 ELSE CHOOSE m \in S : \A x \in S : x <= m

get_next_task_id(task_text) == SetMax(IdMatches(task_text) \cup {0}) + 1

\* ------------------------------------------------------------------------
\* format_task_block
\* ------------------------------------------------------------------------
\* any(status == "FAILED" for status in test_results.values())
HasFailures(test_results) == \E i \in 1..Len(test_results) : test_results[i].val = "FAILED"

FailingCount(test_results) ==
    Cardinality({i \in 1..Len(test_results) : test_results[i].val = "FAILED"})

\* x or y, for dates
DateOr(d, other) == IF d = NoDate THEN other ELSE d

\* assignee or 'None'
TextOfAssignee(a) == IF a = NoAssignee THEN "None" ELSE a

\* a test the run does not report counts as failing
StatusOrFailed(test_results, test_name) ==
    IF Has(test_results, test_name) THEN GetVal(test_results, test_name) ELSE "FAILED"

\* test_results.get(test_name, "PASSED")
StatusOrPassed(test_results, test_name) ==
    IF Has(test_results, test_name) THEN GetVal(test_results, test_name) ELSE "PASSED"

\* the existing subtasks in their order, the checkbox from the current run
ExistingSubtaskLines(test_results, existing_subtasks) ==
    [i \in 1..Len(existing_subtasks) |->
        SubtaskLine(existing_subtasks[i].key,
                    StatusOrPassed(test_results, existing_subtasks[i].key) # "FAILED")]

\* every failing test is appended, also one that is an existing subtask
RECURSIVE NewSubtaskLinesEveryFailure(_, _)
NewSubtaskLinesEveryFailure(test_results, existing_subtasks) ==
    IF test_results = <<>> THEN <<>>
    ELSE LET r == Head(test_results)
             rest == NewSubtaskLinesEveryFailure(Tail(test_results), existing_subtasks)
         IN IF r.val = "FAILED" THEN <<SubtaskLine(r.key, FALSE)>> \o rest ELSE rest

\* the failing tests that are no existing subtask, unchecked, in the order of the run
RECURSIVE NewSubtaskLines(_, _)
NewSubtaskLines(test_results, existing_subtasks) ==
    IF test_results = <<>> THEN <<>>
    ELSE LET r == Head(test_results)
             rest == NewSubtaskLines(Tail(test_results), existing_subtasks)
         IN IF r.val = "FAILED" /\ ~Has(existing_subtasks, r.key)
            THEN <<SubtaskLine(r.key, FALSE)>> \o rest
            ELSE rest

\* all() for any(): the main task is unchecked only when every test of the file fails
MainCheckedUnlessAllFail(test_results) ==
    \E i \in 1..Len(test_results) : test_results[i].val # "FAILED"

\* main_checked == "[x]": the main task is checked when no test of the file fails
MainChecked(test_results) == ~HasFailures(test_results)

\* finish_date of the block; existing_task is <<>> (None) or <<task>>
BlockFinishDate(main_checked, existing_task, current_datetime) ==
    IF main_checked THEN current_datetime
    ELSE IF existing_task # <<>> THEN existing_task[1].finish_date
    ELSE NoDate

\* the block as the lines of block.rstrip().split("\n")
format_task_block(file_path, test_results, task_id, existing_subtasks, existing_task, current_datetime) ==
    LET main_checked == MainChecked(test_results)
        upd == existing_task # <<>>
        create_date == IF upd THEN DateOr(existing_task[1].create_date, current_datetime)
                       ELSE current_datetime
        start_date == IF upd THEN DateOr(existing_task[1].start_date, current_datetime)
                      ELSE current_datetime
        finish_date == BlockFinishDate(main_checked, existing_task, current_datetime)
        assignee == IF upd /\ existing_task[1].assignee # NoAssignee
                    THEN existing_task[1].assignee ELSE "Roo"
        priority == IF upd THEN existing_task[1].priority ELSE "Critical"
    IN <<HeaderLine(file_path, main_checked),
         IdLine(task_id),
         DescriptionLine(FailingCount(test_results), file_path),
         PrereqKeyLine,
         PrereqNoneLine,
         PriorityLine(priority),
         EstimatedTimeLine,
         AssigneeLine(TextOfAssignee(assignee)),
         CreateDateLine(create_date),
         StartDateLine(start_date),
         FinishDateLine(finish_date),
         SubtasksKeyLine>>
       \o ExistingSubtaskLines(test_results, existing_subtasks)
       \o NewSubtaskLines(test_results, existing_subtasks)

\* ------------------------------------------------------------------------
\* generate_report
\* ------------------------------------------------------------------------
\* existing_tasks.get(file_path), <<>> for None
GetTask(existing_tasks, file_path) ==
    IF file_path \in DOMAIN existing_tasks THEN <<existing_tasks[file_path]>> ELSE <<>>

\* "file::test"
TestId(file_path, test_name) == <<file_path, test_name>>

\* the checkbox of the subtask is not looked at for a passing test
ClassifyIgnoringCheckbox(existing_task, test_name, current_status) ==
    IF current_status = "PASSED"
    THEN IF existing_task # <<>> /\ Has(existing_task[1].subtasks, test_name)
         THEN "newly_fixed"
         ELSE ""
    ELSE IF existing_task = <<>> \/ ~Has(existing_task[1].subtasks, test_name)
         THEN "newly_broken"
         ELSE "still_failing"

\* the list a (file, test) pair of the run is appended to, "" for none
Classify(existing_task, test_name, current_status) ==
    IF current_status = "PASSED"
    THEN IF /\ existing_task # <<>>
            /\ Has(existing_task[1].subtasks, test_name)
            /\ ~GetVal(existing_task[1].subtasks, test_name)
         THEN "newly_fixed"
         ELSE ""
    ELSE IF existing_task = <<>> \/ ~Has(existing_task[1].subtasks, test_name)
         THEN "newly_broken"
         ELSE "still_failing"

\* the (file, test, status) triples of current_results in iteration order
RECURSIVE FlattenResults(_)
FlattenResults(current_results) ==
    IF current_results = <<>> THEN <<>>
    ELSE LET f == Head(current_results)
         IN [i \in 1..Len(f.val) |-> TestResult(f.key, f.val[i].key, f.val[i].val)]
            \o FlattenResults(Tail(current_results))

RECURSIVE ReportList(_, _, _)
ReportList(flat, existing_tasks, list) ==
    IF flat = <<>> THEN <<>>
    ELSE LET r == Head(flat)
             rest == ReportList(Tail(flat), existing_tasks, list)
         IN IF Classify(GetTask(existing_tasks, r.file_path), r.test_name, r.status) = list
            THEN <<TestId(r.file_path, r.test_name)>> \o rest
            ELSE rest

generate_report(current_results, existing_tasks) ==
    LET flat == FlattenResults(current_results)
    IN [newly_fixed |-> ReportList(flat, existing_tasks, "newly_fixed"),
        newly_broken |-> ReportList(flat, existing_tasks, "newly_broken"),
        still_failing |-> ReportList(flat, existing_tasks, "still_failing")]

\* ------------------------------------------------------------------------
\* organize_tasks_by_priority
\* ------------------------------------------------------------------------
\* the index of the first separator line at or after index from, 0 when there is none
RECURSIVE FindSeparator(_, _)
FindSeparator(lines, from) ==
    IF from > Len(lines) THEN 0
    ELSE IF IsSeparator(lines[from]) THEN from
    ELSE FindSeparator(lines, from + 1)

\* f"- **Priority**: {priority}" in block; no priority of the model is a prefix
\* of another one, so the substring test is the equality of the priority text
BlockMatchesPriority(block, priority) ==
    \E i \in 1..Len(block) : block[i].k = "priority" /\ block[i].s = priority

RECURSIVE BlocksOfPriority(_, _)
BlocksOfPriority(task_blocks, priority) ==
    IF task_blocks = <<>> THEN <<>>
    ELSE (IF BlockMatchesPriority(Head(task_blocks), priority)
          THEN Head(task_blocks) \o <<BlankLine>> ELSE <<>>)
         \o BlocksOfPriority(Tail(task_blocks), priority)

RECURSIVE PrioritySections(_, _)
PrioritySections(task_blocks, k) ==
    IF k > Len(priority_order) THEN <<>>
    ELSE <<SectionLine(priority_order[k]), BlankLine>>
         \o BlocksOfPriority(task_blocks, priority_order[k])
         \o <<BlankLine>>
         \o PrioritySections(task_blocks, k + 1)

organize_tasks_by_priority(task_blocks, original_text) ==
    LET lines == original_text
        first_dash_line == FindSeparator(lines, 1)
        second_dash_line == IF first_dash_line > 0 THEN FindSeparator(lines, first_dash_line + 1)
                            ELSE FindSeparator(lines, 1)
        head == IF first_dash_line > 0 THEN SubSeq(lines, 1, first_dash_line)
                ELSE lines \o <<BlankLine, DashLine(SeparatorLen)>>
        tail == IF second_dash_line > 0
                THEN <<DashLine(SeparatorLen)>> \o SubSeq(lines, second_dash_line + 1, Len(lines))
                ELSE <<DashLine(SeparatorLen)>>
    IN head \o <<BlankLine>>
       \o PrioritySections(task_blocks, 1)
       \o <<ArchiveLine, BlankLine, ArchiveNoteLine, BlankLine>>
       \o tail

\* ------------------------------------------------------------------------
\* update_tasks_file
\* ------------------------------------------------------------------------
\* the text used when the file does not exist
DefaultText ==
    <<TextLine("# taskautomation Task List"), BlankLine, TextLine("## Instructions"),
      BlankLine, TextLine("See the [Task Instructions]"), BlankLine, TextLine("## Tasks"),
      BlankLine, BlankLine>>

\* "Check if there are any changes needed", for a file with an existing task
ExistingTaskChanges(test_results, existing_subtasks) ==
    \E i \in 1..Len(test_results) :
        LET test_name == test_results[i].key
            status == test_results[i].val
        IN \/ status = "FAILED" /\ ~Has(existing_subtasks, test_name)
           \/ /\ status = "PASSED"
              /\ Has(existing_subtasks, test_name)
              /\ ~GetVal(existing_subtasks, test_name)

\* "not" lost before existing_task: a passing file is skipped when it has a task
SkipFileWithTask(test_results, existing_task) ==
    ~HasFailures(test_results) /\ existing_task # <<>>

\* "Skip files with all passing tests and no existing task"
SkipFile(test_results, existing_task) ==
    ~HasFailures(test_results) /\ existing_task = <<>>

\* the body of the loop over current_results, for one file: acc is
\* [new_blocks, has_changes, current_task_id]
ProcessFile(acc, file_path, test_results, existing_tasks, now) ==
    LET existing_task == GetTask(existing_tasks, file_path)
    IN IF SkipFile(test_results, existing_task) THEN acc
       ELSE IF existing_task # <<>>
       THEN [new_blocks |-> Append(acc.new_blocks,
                 format_task_block(file_path, test_results, existing_task[1].task_id,
                                   existing_task[1].subtasks, existing_task, now)),
             has_changes |-> acc.has_changes
                             \/ ExistingTaskChanges(test_results, existing_task[1].subtasks),
             current_task_id |-> acc.current_task_id]
       ELSE [new_blocks |-> Append(acc.new_blocks,
                 format_task_block(file_path, test_results, acc.current_task_id,
                                   <<>>, <<>>, now)),
             has_changes |-> TRUE,
             current_task_id |-> acc.current_task_id + 1]

RECURSIVE ProcessFiles(_, _, _, _)
ProcessFiles(acc, current_results, existing_tasks, now) ==
    IF current_results = <<>> THEN acc
    ELSE ProcessFiles(ProcessFile(acc, Head(current_results).key, Head(current_results).val,
                                  existing_tasks, now),
                      Tail(current_results), existing_tasks, now)

\* the dry_run flag is not looked at: every run with changes writes
WritesFileAlways(has_changes, dry_run) == has_changes

\* write_text is reached: has_changes, and "if not dry_run"
WritesFile(has_changes, dry_run) == has_changes /\ ~dry_run

\* file is [exists, text]; the result is the return value, the blocks and the file
update_tasks_file(current_results, existing_tasks, dry_run, file, now) ==
    LET original_text == IF file.exists THEN file.text ELSE DefaultText
        next_task_id == get_next_task_id(original_text)
        acc == ProcessFiles([new_blocks |-> <<>>, has_changes |-> FALSE,
                             current_task_id |-> next_task_id],
                            current_results, existing_tasks, now)
        write == WritesFile(acc.has_changes, dry_run)
    IN [returned |-> acc.has_changes,
        new_blocks |-> acc.new_blocks,
        file |-> IF write
                 THEN [exists |-> TRUE,
                       text |-> organize_tasks_by_priority(acc.new_blocks, original_text)]
                 ELSE file]

\* ------------------------------------------------------------------------
\* markdown_parser.py: the values of a task record
\* ------------------------------------------------------------------------
\* Python's None and a value that is not None, for a field that may be None
None == <<>>

Some(x) == <<x>>

\* x or default
OrElse(x, default) == IF x = None THEN default ELSE x[1]

\* a list, a dict (its entries in order), a str and None, for the two fields
\* of a record that the parser fills with any of them
PyList(v) == [t |-> "list", s |-> "", v |-> v]

PyDict(v) == [t |-> "dict", s |-> "", v |-> v]

PyStr(s) == [t |-> "str", s |-> s, v |-> <<>>]

PyNone == [t |-> "none", s |-> "", v |-> <<>>]

\* bool(x): an empty list or dict, an empty str and None are false
Truthy(x) == IF x.t = "str" THEN x.s # "" ELSE x.v # <<>>

\* the text of a date: form "" is a text DATETIME_RE matches and that names a
\* date, the n-th one; "month13" is a text DATETIME_RE matches that names no
\* date; "words" is any other text
DateText(form, n) == [form |-> form, n |-> n]

\* core_utils.TaskInfo
MdTask(title, checked, id, p, a, cd, sd, fd, et, d, pre, subs, raw) ==
    [title |-> title, checked |-> checked, task_id |-> id, priority |-> p, assignee |-> a,
     create_date |-> cd, start_date |-> sd, finish_date |-> fd, estimated_time |-> et,
     description |-> d, prerequisites |-> pre, subtasks |-> subs, raw_block |-> raw]

\* ------------------------------------------------------------------------
\* markdown_parser.py: the lines of a task block
\* ------------------------------------------------------------------------
\* "  - **Description**: text"
MdDescriptionLine(txt) == Line("desc", txt, 0, FALSE)

\* "  - **Estimated Time**: text"
MdEstimatedTimeLine(txt) == Line("estimated", txt, 0, FALSE)

\* "  - **Create Date**: text" and the other two, None written as "None"
MdDateLine(k, d) == IF d = None THEN Line(k, "", NoDate, FALSE) ELSE Line(k, d[1].form, d[1].n, FALSE)

\* "  - **Prerequisites**: text": the key with a value on its own line
PrereqInlineLine(txt) == Line("prereqinline", txt, 0, FALSE)

\* "  - **Subtasks**: text"
SubtasksInlineLine(txt) == Line("subinline", txt, 0, FALSE)

\* "    - text": an entry of the list of prerequisites
ItemLine(txt) == Line("item", txt, 0, FALSE)

\* "    - [c] name": a subtask with any name
MdSubtaskLine(name, c) == Line("mdsub", name, 0, c)

\* TASK_BLOCK_RE.match(line), and also line.startswith("- [")
IsTaskHeader(line) == line.k \in {"header", "task"}

\* "- [ ] txt" at column 0, no bold title: a bullet that is no task header
CheckboxBulletLine(txt) == Line("checkbullet", txt, 0, FALSE)

\* "- **Priority**: p" at column 0
TopPriorityLine(p) == Line("toppriority", p, 0, FALSE)

\* line.startswith("- [")
StartsWithCheckbox(line) == IsTaskHeader(line) \/ line.k = "checkbullet"

\* group(2) of TASK_BLOCK_RE
TitleOf(line) == IF line.k = "header" THEN "Fix failing tests in " \o line.s ELSE line.s

\* line.startswith("    - ")
IsItem(line) == line.k \in {"item", "prereqnone", "sub", "mdsub"}

\* line.startswith("    - [") and SUBTASK_RE matches
IsSubtask(line) == line.k \in {"sub", "mdsub"}

\* group(2) of SUBTASK_RE
SubtaskNameOf(line) == IF line.k = "sub" THEN "Fix " \o line.s ELSE line.s

\* lines[i].strip()[2:] of an item line
ItemTextOf(line) ==
    IF line.k = "prereqnone" THEN "None"
    ELSE IF IsSubtask(line)
    THEN (IF line.b THEN "[x] " ELSE "[ ] ") \o SubtaskNameOf(line)
    ELSE line.s

\* value.lower() in ("none", "")
IsNoneText(txt) == txt \in {"None", "none", "NONE"}

\* "  - **Pre-requisites**: text"
HyphenPrereqInlineLine(txt) == Line("hyphenprereqinline", txt, 0, FALSE)

\* line.strip().startswith("- **Pre-requisites**:") or ...("- **Prerequisites**:")
IsPrereqKey(line) == line.k \in {"prereqkey", "prereqinline", "hyphenprereqinline"}

\* line.strip().startswith("- **Subtasks**:")
IsSubtasksKey(line) == line.k \in {"subkey", "subinline"}

\* ------------------------------------------------------------------------
\* markdown_parser.parse_existing_tasks
\* ------------------------------------------------------------------------
\* the text of a metadata value, None for "None"
TextOrNone(txt) == IF IsNoneText(txt) THEN None ELSE Some(txt)

\* "Fix n failing test(s) in f", as run_tests.format_task_block writes it
RunDescriptionText(line) ==
    "Fix " \o ToString(line.n) \o " failing test" \o (IF line.n # 1 THEN "s" ELSE "")
    \o " in " \o line.s

\* "Parse metadata": METADATA_RE matches the line and the key is "id" or a
\* key of task_data; a line of any other shape leaves task_data as it is
ApplyMetadata(td, line) ==
    IF line.k = "id" THEN [td EXCEPT !.task_id = line.n]
    ELSE IF line.k \in {"priority", "toppriority"}
    THEN [td EXCEPT !.priority = TextOrNone(line.s)]
    ELSE IF line.k = "assignee" THEN [td EXCEPT !.assignee = TextOrNone(line.s)]
    ELSE IF line.k = "estimated" THEN [td EXCEPT !.estimated_time = TextOrNone(line.s)]
    ELSE IF line.k = "desc" THEN [td EXCEPT !.description = TextOrNone(line.s)]
    ELSE IF line.k = "description"
    THEN [td EXCEPT !.description = Some(RunDescriptionText(line))]
    ELSE IF line.k \in {"create", "start", "finish"}
    THEN LET d == IF line.s = "" /\ line.n = NoDate THEN None
                  ELSE Some(DateText(line.s, line.n))
         IN IF line.k = "create" THEN [td EXCEPT !.create_date = d]
            ELSE IF line.k = "start" THEN [td EXCEPT !.start_date = d]
            ELSE [td EXCEPT !.finish_date = d]
    ELSE IF line.k = "prereqinline"
    THEN [td EXCEPT !.prerequisites = IF IsNoneText(line.s) THEN PyNone ELSE PyStr(line.s)]
    ELSE IF line.k = "subinline"
    THEN [td EXCEPT !.subtasks = IF IsNoneText(line.s) THEN PyNone ELSE PyStr(line.s)]
    ELSE td

\* the result of a loop: the index it stopped at, task_data, and whether an
\* exception left the function
Loop(i, td, raised) == [i |-> i, td |-> td, raised |-> raised]

\* the loop over the lines that start with "    - " after a prerequisites
\* key: append() raises when task_data["prerequisites"] is no list
RECURSIVE PrereqItems(_, _, _)
PrereqItems(lines, i, td) ==
    IF i > Len(lines) \/ ~IsItem(lines[i]) THEN Loop(i, td, FALSE)
    ELSE IF IsNoneText(ItemTextOf(lines[i])) THEN PrereqItems(lines, i + 1, td)
    ELSE IF td.prerequisites.t # "list" THEN Loop(i, td, TRUE)
    ELSE PrereqItems(lines, i + 1,
                     [td EXCEPT !.prerequisites = PyList(Append(@.v, ItemTextOf(lines[i])))])

\* the loop over the lines that start with "    - [" after a subtasks key:
\* the item assignment raises when task_data["subtasks"] is no dict
RECURSIVE SubtaskItems(_, _, _)
SubtaskItems(lines, i, td) ==
    IF i > Len(lines) \/ ~IsSubtask(lines[i]) THEN Loop(i, td, FALSE)
    ELSE IF td.subtasks.t # "dict" THEN Loop(i, td, TRUE)
    ELSE SubtaskItems(lines, i + 1,
                      [td EXCEPT !.subtasks =
                           PyDict(Put(@.v, SubtaskNameOf(lines[i]), lines[i].b))])

\* the inner loop over the lines of a block; i is the line looked at, the
\* result holds the value of i when the loop is left
RECURSIVE MdBody(_, _, _)
MdBody(lines, i, td) ==
    IF i > Len(lines) THEN Loop(i, td, FALSE)
    ELSE LET line == lines[i] IN
        IF line.k = "blank" /\ i + 1 <= Len(lines) /\ StartsWithCheckbox(lines[i + 1])
        THEN Loop(i, td, FALSE)
        ELSE IF IsTaskHeader(line)
        THEN Loop(i - 1, td, FALSE)
        ELSE LET td1 == ApplyMetadata(td, line)
                 r == IF IsPrereqKey(line) THEN PrereqItems(lines, i + 1, td1)
                      ELSE IF IsSubtasksKey(line) THEN SubtaskItems(lines, i + 1, td1)
                      ELSE Loop(i + 1, td1, FALSE)
             IN IF r.raised THEN r ELSE MdBody(lines, r.i, r.td)

\* task_data as it is initialised for a header line
NewTaskData(line) ==
    MdTask(TitleOf(line), line.b, -1, Some("Critical"), None, None, None, None, None, None,
           PyList(<<>>), PyDict(<<>>), <<>>)

\* what parse_existing_tasks gives: the dict, or an exception
Parsed(tasks, raised) == [tasks |-> tasks, raised |-> raised]

Min(a, b) == IF a < b THEN a ELSE b

RECURSIVE MdParseFrom(_, _, _)
MdParseFrom(lines, i, tasks) ==
    IF i > Len(lines) THEN Parsed(tasks, FALSE)
    ELSE IF IsTaskHeader(lines[i])
    THEN LET r == MdBody(lines, i + 1, NewTaskData(lines[i]))
             task_info == [r.td EXCEPT !.raw_block = SubSeq(lines, i, Min(r.i, Len(lines)))]
         IN IF r.raised THEN Parsed(<<>>, TRUE)
            ELSE MdParseFrom(lines, r.i + 1, Put(tasks, task_info.title, task_info))
    ELSE MdParseFrom(lines, i + 1, tasks)

md_parse_existing_tasks(task_text) == MdParseFrom(task_text, 1, <<>>)

\* ------------------------------------------------------------------------
\* markdown_parser.format_task_block
\* ------------------------------------------------------------------------
\* the text of the block as text.split("\n") gives it: the text ends with a
\* newline, so an empty line follows the last line of the block
md_format_task_block(t) ==
    <<OtherTaskLine(t.title, t.checked),
      IdLine(t.task_id),
      MdDescriptionLine(OrElse(t.description, "No description")),
      PrereqKeyLine>>
    \o (IF Truthy(t.prerequisites)
        THEN [i \in 1..Len(t.prerequisites.v) |-> ItemLine(t.prerequisites.v[i])]
        ELSE <<PrereqNoneLine>>)
    \o <<PriorityLine(OrElse(t.priority, "None")),
         MdEstimatedTimeLine(OrElse(t.estimated_time, "30 minutes")),
         AssigneeLine(OrElse(t.assignee, "None")),
         MdDateLine("create", t.create_date),
         MdDateLine("start", t.start_date),
         MdDateLine("finish", t.finish_date),
         SubtasksKeyLine>>
    \o (IF Truthy(t.subtasks)
        THEN [i \in 1..Len(t.subtasks.v) |-> MdSubtaskLine(t.subtasks.v[i].key, t.subtasks.v[i].val)]
        ELSE <<PrereqNoneLine>>)
    \o <<BlankLine>>

\* ------------------------------------------------------------------------
\* validation_utils.validate_task_data
\* ------------------------------------------------------------------------
valid_priorities == {"Critical", "High", "Medium", "Low"}

\* DATETIME_RE.match(date_value)
MatchesDatetime(d) == d.form \in {"", "month13"}

\* datetime.fromisoformat(date_value.rstrip("Z")) returns a date
IsIsoDate(d) == d.form = ""

\* what validate_task_data gives: a ValidationResult, or an exception
Validation(errors, warnings) ==
    [raised |-> FALSE, is_valid |-> Len(errors) = 0, errors |-> errors, warnings |-> warnings]

ValidationRaised == [raised |-> TRUE, is_valid |-> FALSE, errors |-> <<>>, warnings |-> <<>>]

\* <<x>> if the condition holds
When(cond, x) == IF cond THEN <<x>> ELSE <<>>

\* "{date_field} must be in ISO8601 format"
DateFormatError(date_field, date_value) ==
    When(date_value # None /\ ~MatchesDatetime(date_value[1]), date_field \o " must be in ISO8601 format")

\* all(task.subtasks.values())
AllSubtasksDone(subtasks) == \A i \in 1..Len(subtasks.v) : subtasks.v[i].val

validate_task_data(t) ==
    LET both == t.create_date # None /\ t.start_date # None
        parsed == both /\ IsIsoDate(t.create_date[1]) /\ IsIsoDate(t.start_date[1])
        errors ==
            When(t.title = "", "Task title is required and cannot be empty")
            \o When(t.task_id <= 0, "Task ID must be a positive integer")
            \o When(t.priority = None \/ t.priority[1] \notin valid_priorities, "Priority must be one of")
            \o DateFormatError("create_date", t.create_date)
            \o DateFormatError("start_date", t.start_date)
            \o DateFormatError("finish_date", t.finish_date)
            \o When(both /\ ~parsed, "Date parsing error")
        warnings ==
            When(parsed /\ t.start_date[1].n < t.create_date[1].n, "Start date is before create date")
            \o When(t.checked /\ t.finish_date = None, "Completed task should have a finish date")
            \o When(~t.checked /\ t.finish_date # None, "Incomplete task should not have a finish date")
            \o When(Truthy(t.subtasks) /\ t.checked /\ ~AllSubtasksDone(t.subtasks),
                    "Main task is completed but some subtasks are not")
            \o When(Truthy(t.subtasks) /\ ~t.checked /\ AllSubtasksDone(t.subtasks),
                    "All subtasks completed but main task is not")
    IN \* .values() of a str, len() of None
       IF t.subtasks.t \in {"str", "none"} THEN ValidationRaised
       ELSE Validation(errors, warnings)

\* ------------------------------------------------------------------------
\* task_schema.py: Task and TaskList
\* ------------------------------------------------------------------------
\* a datetime: the n-th moment, with a UTC offset (aware) or without
Aware(n) == [n |-> n, aware |-> TRUE]

Naive(n) == [n |-> n, aware |-> FALSE]

\* task_schema.Subtask
Subtask(name, completed) == [name |-> name, completed |-> completed]

\* the moment Task() reads from utcnow() when the data hold no created_date
CreatedAt == 1

\* task_schema.Task, the fields the validators, the search and to_dict read;
\* no task is assigned, and created_date takes its default, the text of
\* utcnow() with "Z", which validate_datetime reads as an aware datetime
Task(id, title, priority, status, start_date, finish_date, estimated_time, prerequisites, subtasks) ==
    [id |-> id, title |-> title, priority |-> priority, status |-> status,
     start_date |-> start_date, finish_date |-> finish_date, estimated_time |-> estimated_time,
     prerequisites |-> prerequisites, subtasks |-> subtasks, assignee |-> None,
     created_date |-> Some(Aware(CreatedAt))]

\* task_schema.TaskList()
EmptyTaskList == [critical |-> <<>>, high |-> <<>>, medium |-> <<>>, low |-> <<>>, archive |-> <<>>]

get_active_tasks(tl) == tl.critical \o tl.high \o tl.medium \o tl.low

get_all_tasks(tl) == tl.critical \o tl.high \o tl.medium \o tl.low \o tl.archive

\* the key of priority_map for a priority
ListOf(priority) ==
    IF priority = "Critical" THEN "critical"
    ELSE IF priority = "High" THEN "high"
    ELSE IF priority = "Medium" THEN "medium"
    ELSE "low"

add_task(tl, t) == [tl EXCEPT ![ListOf(t.priority)] = Append(@, t)]

\* the sequence without its i-th element
RemoveAt(q, i) == SubSeq(q, 1, i - 1) \o SubSeq(q, i + 1, Len(q))

\* the position of the first task with the id, 0 if there is none
FirstWithId(q, task_id) ==
    IF \E i \in 1..Len(q) : q[i].id = task_id
    THEN CHOOSE i \in 1..Len(q) : q[i].id = task_id /\ \A j \in 1..(i - 1) : q[j].id # task_id
    ELSE 0

\* archive_task: get_task_by_id takes the first task with the id of all
\* tasks, the archive included; it is taken out of the priority list that
\* holds it, set to completed with finish_date = utcnow(), and appended to
\* the archive. A task found in the archive stays there and is appended again
archive_task(tl, task_id, now) ==
    LET all_tasks == get_all_tasks(tl)
        k == FirstWithId(all_tasks, task_id)
        done == [all_tasks[k] EXCEPT !.status = "completed", !.finish_date = Some(Naive(now))]
        c == Len(tl.critical)
        h == c + Len(tl.high)
        m == h + Len(tl.medium)
        l == m + Len(tl.low)
        taken ==
            IF k <= c THEN [tl EXCEPT !.critical = RemoveAt(@, k)]
            ELSE IF k <= h THEN [tl EXCEPT !.high = RemoveAt(@, k - c)]
            ELSE IF k <= m THEN [tl EXCEPT !.medium = RemoveAt(@, k - h)]
            ELSE IF k <= l THEN [tl EXCEPT !.low = RemoveAt(@, k - m)]
            ELSE [tl EXCEPT !.archive = [@ EXCEPT ![k - l] = done]]
    IN IF k = 0 THEN tl ELSE [taken EXCEPT !.archive = Append(@, done)]

\* ------------------------------------------------------------------------
\* task_validator.py
\* ------------------------------------------------------------------------
\* an entry of errors or warnings: what the message says and the values it
\* names
Message(kind, id, title, others) == [kind |-> kind, id |-> id, title |-> title, others |-> others]

\* the texts the checks are tried on
is_valid_time_estimate(time_str) == time_str \in {"30 minutes", "2 hours", "1 day", "2h", "2:30"}

\* > of two datetimes raises TypeError when one is aware and one is naive
validate_task_object(t) ==
    LET both == t.start_date # None /\ t.finish_date # None
        mixed == both /\ t.start_date[1].aware # t.finish_date[1].aware
        uncompleted_subtasks ==
            SelectSeq(t.subtasks, LAMBDA st : ~st.completed /\ st.name # "")
        errors ==
            When(both /\ ~mixed /\ t.start_date[1].n > t.finish_date[1].n,
                 Message("Start date cannot be after finish date", t.id, "", <<>>))
        warnings ==
            When(t.status = "completed" /\ t.subtasks # <<>> /\ uncompleted_subtasks # <<>>,
                 Message("is marked complete but has uncompleted subtasks", t.id, "",
                         [i \in 1..Len(uncompleted_subtasks) |-> uncompleted_subtasks[i].name]))
            \o When(t.status = "in_progress" /\ t.start_date = None,
                    Message("is in progress but has no start date", t.id, "", <<>>))
            \o When(t.status = "completed" /\ t.finish_date = None,
                    Message("is completed but has no finish date", t.id, "", <<>>))
            \o When(t.estimated_time # None /\ ~is_valid_time_estimate(t.estimated_time[1]),
                    Message("Estimated time should be in format like", t.id, "", <<>>))
    IN IF mixed
       THEN Validation(<<Message("Unexpected error validating task", t.id, "", <<>>)>>, <<>>)
       ELSE Validation(errors, warnings)

\* task_ids: the title of the first task of every id seen
RECURSIVE DuplicateIdsFrom(_, _, _)
DuplicateIdsFrom(all_tasks, i, task_ids) ==
    IF i > Len(all_tasks) THEN <<>>
    ELSE IF Has(task_ids, all_tasks[i].id)
    THEN <<Message("Duplicate task ID", all_tasks[i].id, all_tasks[i].title,
                   <<GetVal(task_ids, all_tasks[i].id)>>)>>
         \o DuplicateIdsFrom(all_tasks, i + 1, task_ids)
    ELSE DuplicateIdsFrom(all_tasks, i + 1, Put(task_ids, all_tasks[i].id, all_tasks[i].title))

check_duplicate_task_ids(all_tasks) == DuplicateIdsFrom(all_tasks, 1, <<>>)

\* the concatenation of the sequences f[1], ..., f[n]
RECURSIVE ConcatAll(_, _)
ConcatAll(f, n) == IF n = 0 THEN <<>> ELSE ConcatAll(f, n - 1) \o f[n]

\* every name counts as a title: the titles and whatever a task asks for
TitlesAndPrerequisites(all_tasks) ==
    {all_tasks[i].title : i \in 1..Len(all_tasks)}
    \cup UNION {{all_tasks[i].prerequisites[j] : j \in 1..Len(all_tasks[i].prerequisites)} :
                  i \in 1..Len(all_tasks)}

\* all_task_titles = {task.title for task in tasks}
AllTaskTitles(all_tasks) == {all_tasks[i].title : i \in 1..Len(all_tasks)}

check_prerequisites_exist(all_tasks) ==
    LET all_task_titles == AllTaskTitles(all_tasks)
        unknown(t) == SelectSeq(t.prerequisites, LAMBDA prereq : prereq \notin all_task_titles)
    IN ConcatAll([i \in 1..Len(all_tasks) |->
                     [j \in 1..Len(unknown(all_tasks[i])) |->
                         Message("has unknown prerequisite", 0, all_tasks[i].title,
                                 <<unknown(all_tasks[i])[j]>>)]],
                 Len(all_tasks))

\* {task.title: task for task in tasks}: the last task of a title
TaskDict(all_tasks) ==
    [title \in {all_tasks[i].title : i \in 1..Len(all_tasks)} |->
        all_tasks[CHOOSE i \in 1..Len(all_tasks) :
                     all_tasks[i].title = title
                     /\ \A j \in (i + 1)..Len(all_tasks) : all_tasks[j].title # title]]

RECURSIVE has_circular_dependency(_, _, _, _)
has_circular_dependency(current_task, t, all_tasks, visited) ==
    IF current_task \in visited THEN TRUE
    ELSE \E i \in 1..Len(t.prerequisites) :
            /\ t.prerequisites[i] \in DOMAIN all_tasks
            /\ has_circular_dependency(t.prerequisites[i], all_tasks[t.prerequisites[i]],
                                         all_tasks, visited \cup {current_task})

check_circular_dependencies(all_tasks) ==
    LET task_dict == TaskDict(all_tasks)
    IN ConcatAll([i \in 1..Len(all_tasks) |->
                     When(has_circular_dependency(all_tasks[i].title, all_tasks[i], task_dict, {}),
                          Message("Circular dependency detected involving task", 0,
                                  all_tasks[i].title, <<>>))],
                 Len(all_tasks))

check_completion_consistency(all_tasks) ==
    LET task_dict == TaskDict(all_tasks)
        incomplete_prereqs(t) ==
            SelectSeq(t.prerequisites,
                      LAMBDA prereq : prereq \in DOMAIN task_dict
                                      /\ task_dict[prereq].status # "completed")
    IN ConcatAll([i \in 1..Len(all_tasks) |->
                     When(all_tasks[i].status = "completed"
                          /\ incomplete_prereqs(all_tasks[i]) # <<>>,
                          Message("is complete but has incomplete prerequisites", 0,
                                  all_tasks[i].title, incomplete_prereqs(all_tasks[i])))],
                 Len(all_tasks))

\* the body of validate_task_list, for all_tasks as it gets them
ValidateTasks(all_tasks) ==
    LET each == [i \in 1..Len(all_tasks) |-> validate_task_object(all_tasks[i])]
    IN Validation(check_duplicate_task_ids(all_tasks)
                  \o check_prerequisites_exist(all_tasks)
                  \o check_circular_dependencies(all_tasks)
                  \o ConcatAll([i \in 1..Len(all_tasks) |-> each[i].errors], Len(all_tasks)),
                  check_completion_consistency(all_tasks)
                  \o ConcatAll([i \in 1..Len(all_tasks) |-> each[i].warnings], Len(all_tasks)))

\* the archive is not looked at
ValidateActiveTasks(tl) == ValidateTasks(get_active_tasks(tl))

validate_task_list(tl) == ValidateTasks(get_all_tasks(tl))

\* ------------------------------------------------------------------------
\* task_parser.find_tasks_by_criteria
\* ------------------------------------------------------------------------
\* the arguments; None is no filter
Criteria(priority, status, assignee, has_subtasks, include_archived) ==
    [priority |-> priority, status |-> status, assignee |-> assignee,
     has_subtasks |-> has_subtasks, include_archived |-> include_archived]

\* no "continue" is taken for the task
Matches(t, c) ==
    /\ c.priority = None \/ t.priority = c.priority[1]
    /\ c.status = None \/ t.status = c.status[1]
    /\ c.assignee = None \/ t.assignee = c.assignee
    /\ c.has_subtasks = None \/ (t.subtasks # <<>>) = c.has_subtasks[1]

find_tasks_by_criteria(tl, c) ==
    LET searched == IF c.include_archived THEN get_all_tasks(tl) \o tl.archive
                    ELSE get_all_tasks(tl)
    IN SelectSeq(searched, LAMBDA t : Matches(t, c))

\* ------------------------------------------------------------------------
\* task_schema.py: to_dict and the constructors from a dict
\* ------------------------------------------------------------------------
\* the text of a datetime: the n-th moment in ISO form, and what follows the
\* seconds: "", "Z", "+00:00" or "+00:00Z"
IsoText(n, suffix) == [n |-> n, suffix |-> suffix]

\* d.isoformat() + "Z": isoformat() of an aware datetime ends with "+00:00"
IsoformatZ(d) == IsoText(d.n, IF d.aware THEN "+00:00Z" ELSE "Z")

\* validate_datetime of a str: a final "Z" is replaced by "+00:00" and
\* fromisoformat reads the text; it raises on two offsets
validate_datetime(text) ==
    IF text.suffix = "+00:00Z" THEN [raised |-> TRUE, value |-> None]
    ELSE [raised |-> FALSE,
          value |-> Some(IF text.suffix = "" THEN Naive(text.n) ELSE Aware(text.n))]

\* Task.to_dict: the three dates as text, None for a date that is not set
TaskToDict(t) ==
    [t EXCEPT !.created_date = IF @ = None THEN None ELSE Some(IsoformatZ(@[1])),
              !.start_date = IF @ = None THEN None ELSE Some(IsoformatZ(@[1])),
              !.finish_date = IF @ = None THEN None ELSE Some(IsoformatZ(@[1]))]

\* the date of a Task for the entry of the data: None stays None
DateOfData(text) == IF text = None THEN [raised |-> FALSE, value |-> None] ELSE validate_datetime(text[1])

\* Task(data) for data that to_dict wrote: id, title, priority and status
\* pass their checks, a date may raise ValidationError
TaskOfData(data) ==
    LET created == DateOfData(data.created_date)
        start == DateOfData(data.start_date)
        finish == DateOfData(data.finish_date)
    IN [raised |-> created.raised \/ start.raised \/ finish.raised,
        task |-> [data EXCEPT !.created_date = created.value,
                              !.start_date = start.value,
                              !.finish_date = finish.value]]

\* TaskList.to_dict
TaskListToDict(tl) ==
    [b \in DOMAIN tl |-> [i \in 1..Len(tl[b]) |-> TaskToDict(tl[b][i])]]

\* TaskList(data): every task of every bucket is built; the first exception
\* leaves the constructor
TaskListOfData(data) ==
    LET built == [b \in DOMAIN data |-> [i \in 1..Len(data[b]) |-> TaskOfData(data[b][i])]]
    IN [raised |-> \E b \in DOMAIN data : \E i \in 1..Len(data[b]) : built[b][i].raised,
        task_list |-> [b \in DOMAIN data |-> [i \in 1..Len(data[b]) |-> built[b][i].task]]]

\* ------------------------------------------------------------------------
\* State
\* ------------------------------------------------------------------------
VARIABLES
    file,        \* docs/TASKS.md: [exists, text]
    clock,       \* what get_current_datetime() returns next
    phase,       \* how far the run has come
    results,     \* current_results of the last run
    existing,    \* existing_tasks of the last run
    dry_run,     \* dry_run of the last run
    before,      \* the file as the last run found it
    report,      \* what generate_report returned
    returned,    \* what update_tasks_file returned
    new_blocks,  \* the blocks update_tasks_file computed
    output,      \* the result lines of the pytest output of the last run
    allocated,   \* history: <<id, file>> of every new task of the runs that wrote
    task_text,   \* the text last given to markdown_parser.parse_existing_tasks
    tasks,       \* what it returned, or that it raised
    task,        \* the TaskInfo last given to format_task_block, if any
    validation,  \* what validate_task_data returned for a record, or that it raised
    md_step,     \* which of the functions of the library ran last
    task_list,   \* a TaskList
    list_validation,  \* what validate_task_list returned for it
    list_step,   \* whether list_validation is of the task_list of the state
    list_result  \* what the function last called on task_list was given and returned

run_vars ==
    <<file, clock, phase, results, existing, dry_run, before, report, returned, new_blocks,
      output, allocated>>

md_vars == <<task_text, tasks, task, validation, md_step>>

list_vars == <<task_list, list_validation, list_step, list_result>>

\* the state beside that of the runs of main()
lib_vars == <<md_vars, list_vars>>

vars == <<run_vars, md_vars, list_vars>>

\* ------------------------------------------------------------------------
\* Bounds and inputs
\* ------------------------------------------------------------------------
\* runs of main() in one behaviour
MaxPasses == 2

\* result lines in one pytest output
MaxOutputLines == 3

\* subtasks of a record of a starting ledger, where every record is tried
MaxSubtasks == 2

\* tests of one file in a run, where every outcome is tried
MaxRunTests == 3

\* a date before the first run
OldDate == NoDate + 1

StartClock == OldDate + 1

\* the test a run of the suite reports on, for each file
RunTests == {"t1"}

ResultLines == {TestResult(f, t, s) : f \in Files, t \in RunTests, s \in Statuses}

RunOutputs == UNION {[1..n -> ResultLines] : n \in 0..MaxOutputLines}

\* what main() makes of the outputs
RunResults == {group_results_by_file(parse_test_results(o)) : o \in RunOutputs}

\* the lines of an output that main() reads as current_results: a line for
\* every test in the order of the dicts, and the PASSED lines after them
OutputFor(current_results) ==
    LET flat == FlattenResults(current_results)
        IsPassed(r) == r.status = "PASSED"
    IN [i \in 1..Len(flat) |-> TestResult(flat[i].file_path, flat[i].test_name, "FAILED")]
       \o SelectSeq(flat, IsPassed)

\* a task block as it stands in a ledger, in the layout format_task_block writes
StoredBlock(t) ==
    <<HeaderLine(t.file_path, t.checked),
      IdLine(t.task_id),
      DescriptionLine(Cardinality({i \in 1..Len(t.subtasks) : ~t.subtasks[i].val}),
                      t.file_path),
      PrereqKeyLine,
      PrereqNoneLine,
      PriorityLine(t.priority),
      EstimatedTimeLine,
      AssigneeLine(TextOfAssignee(t.assignee)),
      CreateDateLine(t.create_date),
      StartDateLine(t.start_date),
      FinishDateLine(t.finish_date),
      SubtasksKeyLine>>
    \o [i \in 1..Len(t.subtasks) |-> SubtaskLine(t.subtasks[i].key, t.subtasks[i].val)]

\* a completed task that is no test task
OtherBlock ==
    <<OtherTaskLine("Write the docs", TRUE), IdLine(1), PriorityLine("Medium"),
      FinishDateLine(OldDate)>>

Entry(k, v) == [key |-> k, val |-> v]

\* the records of a.py a ledger may start with:  <<>> for none
InitialRecordsA ==
    {<<>>}
    \cup {<<TaskInfo("a.py", FALSE, 3, p, "Roo", OldDate, OldDate, fd, subs)>> :
            p \in {"High", "Urgent"}, fd \in {NoDate, OldDate},
            subs \in {<<Entry("t1", FALSE)>>, <<Entry("t2", FALSE), Entry("t1", TRUE)>>}}
    \cup {<<TaskInfo("a.py", TRUE, 3, "High", "Roo", OldDate, OldDate, OldDate,
                     <<Entry("t1", TRUE)>>)>>}

InitialRecordsB ==
    {<<>>,
     <<TaskInfo("b.py", FALSE, 2, "Low", NoAssignee, NoDate, NoDate, NoDate,
                <<Entry("t1", FALSE)>>)>>}

BlockOf(rec) == IF rec = <<>> THEN <<>> ELSE StoredBlock(rec[1]) \o <<BlankLine>>

\* the task blocks of a starting ledger
Body(ra, rb) == OtherBlock \o <<BlankLine>> \o BlockOf(ra) \o BlockOf(rb)

\* a ledger without separator lines
PlainLedger(ra, rb) == <<TextLine("# Tasks"), BlankLine>> \o Body(ra, rb)

\* a ledger with the tasks between two separator lines
FramedLedger(ra, rb) ==
    <<TextLine("# Tasks"), DashLine(SeparatorLen), BlankLine>> \o Body(ra, rb)
    \o <<DashLine(SeparatorLen), TextLine("footer"), BlankLine>>

\* the length of a separator line somebody typed: more than 10, not SeparatorLen
TypedSeparatorLen == 20

\* a ledger written by hand, with shorter separator lines
TypedLedger(ra, rb) ==
    <<TextLine("# Tasks"), DashLine(TypedSeparatorLen), BlankLine>> \o Body(ra, rb)
    \o <<DashLine(TypedSeparatorLen), TextLine("footer"), BlankLine>>

InitialLedgers ==
    {PlainLedger(ra, rb) : ra \in InitialRecordsA, rb \in InitialRecordsB}
    \cup {FramedLedger(ra, rb) : ra \in InitialRecordsA, rb \in InitialRecordsB}
    \cup {TypedLedger(ra, rb) : ra \in InitialRecordsA, rb \in InitialRecordsB}

InitialFiles ==
    {[exists |-> FALSE, text |-> <<>>]} \cup {[exists |-> TRUE, text |-> l] : l \in InitialLedgers}

NoValidation == [raised |-> FALSE, is_valid |-> TRUE, errors |-> <<>>, warnings |-> <<>>]

\* no function of the library has been called
MdIdle ==
    /\ task_text = <<>>
    /\ tasks = Parsed(<<>>, FALSE)
    /\ task = None
    /\ validation = NoValidation
    /\ md_step = "idle"

NoResult == [call |-> "none"]

\* an empty TaskList, not validated
ListIdle ==
    /\ task_list = EmptyTaskList
    /\ list_validation = NoValidation
    /\ list_step = "building"
    /\ list_result = NoResult

NoReport == [newly_fixed |-> <<>>, newly_broken |-> <<>>, still_failing |-> <<>>]

\* ------------------------------------------------------------------------
\* The runs of main()
\* ------------------------------------------------------------------------
Init ==
    /\ file \in InitialFiles
    /\ clock = StartClock
    /\ phase = "start"
    /\ results = <<>>
    /\ existing = NoTasks
    /\ dry_run = TRUE
    /\ before = file
    /\ report = NoReport
    /\ returned = FALSE
    /\ new_blocks = <<>>
    /\ output = <<>>
    /\ allocated = <<>>
    /\ MdIdle
    /\ ListIdle

\* <<task_id, file_path>> of the blocks that "New task needed" made, in order
NewAllocations(blocks, existing_tasks) ==
    LET IsNewTask(block) == block[1].s \notin DOMAIN existing_tasks
    IN [i \in 1..Len(SelectSeq(blocks, IsNewTask)) |->
           <<SelectSeq(blocks, IsNewTask)[i][2].n, SelectSeq(blocks, IsNewTask)[i][1].s>>]

\* main() after the suite has run: parse the ledger, report, update
Pass(current_results, update_tasks) ==
    /\ \E existing_tasks \in {IF file.exists THEN parse_existing_tasks(file.text) ELSE NoTasks} :
       \E u \in {update_tasks_file(current_results, existing_tasks, ~update_tasks, file, clock)} :
          /\ results' = current_results
          /\ existing' = existing_tasks
          /\ dry_run' = ~update_tasks
          /\ before' = file
          /\ report' = generate_report(current_results, existing_tasks)
          /\ UNCHANGED lib_vars
          /\ returned' = u.returned
          /\ new_blocks' = u.new_blocks
          /\ file' = u.file
          /\ allocated' = IF update_tasks
                          THEN allocated \o NewAllocations(u.new_blocks, existing_tasks)
                          ELSE allocated
    /\ clock' = clock + 1
    /\ phase' = "ran"

\* a run, of the MaxPasses runs that are looked at
Main(current_results, update_tasks) ==
    /\ clock < StartClock + MaxPasses
    /\ Pass(current_results, update_tasks)

\* python run_tests.py
ReportOnly ==
    \E current_results \in RunResults :
        Main(current_results, FALSE) /\ output' = OutputFor(current_results)

\* python run_tests.py --update-tasks
UpdateTasks ==
    \E current_results \in RunResults :
        Main(current_results, TRUE) /\ output' = OutputFor(current_results)

Next == ReportOnly \/ UpdateTasks

Spec == Init /\ [][Next]_vars

\* ------------------------------------------------------------------------
\* Runs with --update-tasks one after the other, on one ledger
\* ------------------------------------------------------------------------
MaxWritePasses == 4

\* a ledger with the open record of b.py between the separator lines
InitHistory ==
    /\ Init
    /\ file = [exists |-> TRUE, text |-> FramedLedger(<<>>, <<TaskInfo("b.py", FALSE, 2, "Low", NoAssignee, NoDate, NoDate, NoDate, <<Entry("t1", FALSE)>>)>>)]

\* python run_tests.py --update-tasks
WritePass ==
    /\ clock < StartClock + MaxWritePasses
    /\ \E current_results \in RunResults :
          Pass(current_results, TRUE) /\ output' = OutputFor(current_results)

NextHistory == WritePass

SpecHistory == InitHistory /\ [][NextHistory]_vars

\* ------------------------------------------------------------------------
\* One run over every record and every outcome of one file
\* ------------------------------------------------------------------------
\* the dicts of at most n entries with keys in K and values in V, in every order
RECURSIVE DictsUpTo(_, _, _)
DictsUpTo(K, V, n) ==
    IF n = 0 THEN {<<>>}
    ELSE {<<>>} \cup UNION {{<<Entry(k, v)>> \o d : d \in DictsUpTo(K \ {k}, V, n - 1)} :
                              k \in K, v \in V}

\* the open records of a.py: any subtasks, with and without a finish date
OneRunRecordsA ==
    {<<>>}
    \cup {<<TaskInfo("a.py", FALSE, 3, "High", "Roo", OldDate, NoDate, fd, subs)>> :
            fd \in {NoDate, OldDate}, subs \in DictsUpTo(Tests, BOOLEAN, MaxSubtasks)}

OneRunFiles ==
    {[exists |-> TRUE, text |-> FramedLedger(ra, rb)] :
        ra \in OneRunRecordsA, rb \in InitialRecordsB}

\* the results of a run that reports on a.py alone
OneRunResults ==
    {<<Entry("a.py", d)>> : d \in DictsUpTo(Tests, Statuses, MaxRunTests) \ {<<>>}}

InitOneRun ==
    /\ file \in OneRunFiles
    /\ clock = StartClock
    /\ phase = "start"
    /\ results = <<>>
    /\ existing = NoTasks
    /\ dry_run = TRUE
    /\ before = file
    /\ report = NoReport
    /\ returned = FALSE
    /\ new_blocks = <<>>
    /\ output = <<>>
    /\ allocated = <<>>
    /\ MdIdle
    /\ ListIdle

RunOnce ==
    /\ phase = "start"
    /\ \E current_results \in OneRunResults, update_tasks \in BOOLEAN :
          Main(current_results, update_tasks) /\ output' = OutputFor(current_results)

NextOneRun == RunOnce

SpecOneRun == InitOneRun /\ [][NextOneRun]_vars

\* ------------------------------------------------------------------------
\* One run on every output of the suite
\* ------------------------------------------------------------------------
RunText ==
    /\ phase = "start"
    /\ \E o \in RunOutputs, update_tasks \in BOOLEAN :
          /\ Main(group_results_by_file(parse_test_results(o)), update_tasks)
          /\ output' = o

NextText == RunText

SpecText == Init /\ [][NextText]_vars

\* ------------------------------------------------------------------------
\* A run that updates, as a process beside the file sees it: write_text
\* opens the file for writing, which empties it, and then writes the text
\* ------------------------------------------------------------------------
\* new_content: the text the run of the state writes
new_content ==
    organize_tasks_by_priority(new_blocks, IF before.exists THEN before.text ELSE DefaultText)

\* main() up to the call of write_text; a run without changes returns here
ComputeContent(current_results) ==
    /\ phase = "start"
    /\ \E existing_tasks \in {IF file.exists THEN parse_existing_tasks(file.text) ELSE NoTasks} :
       \E u \in {update_tasks_file(current_results, existing_tasks, FALSE, file, clock)} :
          /\ results' = current_results
          /\ existing' = existing_tasks
          /\ report' = generate_report(current_results, existing_tasks)
          /\ UNCHANGED lib_vars
          /\ returned' = u.returned
          /\ new_blocks' = u.new_blocks
          /\ allocated' = allocated \o NewAllocations(u.new_blocks, existing_tasks)
          /\ phase' = IF u.returned THEN "computed" ELSE "ran"
    /\ dry_run' = FALSE
    /\ before' = file
    /\ clock' = clock + 1
    /\ UNCHANGED file

ComputeAny ==
    \E current_results \in RunResults :
        ComputeContent(current_results) /\ output' = OutputFor(current_results)

\* write_text: open(mode="w") creates the file or cuts it to length 0
OpenForWriting ==
    /\ phase = "computed"
    /\ file' = [exists |-> TRUE, text |-> <<>>]
    /\ phase' = "opened"
    /\ UNCHANGED <<clock, results, existing, dry_run, before, report, returned, new_blocks,
                   output, allocated, lib_vars>>

\* write_text: f.write(data), and the file is closed
WriteData ==
    /\ phase = "opened"
    /\ file' = [exists |-> TRUE, text |-> new_content]
    /\ phase' = "ran"
    /\ UNCHANGED <<clock, results, existing, dry_run, before, report, returned, new_blocks,
                   output, allocated, lib_vars>>

NextWrite == ComputeAny \/ OpenForWriting \/ WriteData

SpecWrite == Init /\ [][NextWrite]_vars

\* ------------------------------------------------------------------------
\* The functions of markdown_parser.py, called on a text or a record
\* ------------------------------------------------------------------------
\* lines of a text after its first header line
MaxBodyLines == 3

\* the sequences over S of length n or less
RECURSIVE SeqsUpTo(_, _)
SeqsUpTo(S, n) ==
    IF n = 0 THEN {<<>>}
    ELSE LET shorter == SeqsUpTo(S, n - 1)
         IN shorter \cup {Append(q, x) : q \in {r \in shorter : Len(r) = n - 1}, x \in S}

\* the shapes of line a text is made of
BodyLines ==
    {IdLine(1), PriorityLine("High"), TextLine("notes"), BlankLine, OtherTaskLine("U", TRUE),
     PriorityLine("None"), PrereqKeyLine, PrereqNoneLine, ItemLine("Task 2"), SubtasksKeyLine,
     MdSubtaskLine("a", FALSE),
     PrereqInlineLine("Task 1"), PrereqInlineLine("None"), HyphenPrereqInlineLine("Task 1"),
     SubtasksInlineLine("later"), SubtasksInlineLine("None"),
     CheckboxBulletLine("plain"), TopPriorityLine("Low")}

TaskTexts == {<<OtherTaskLine("T", FALSE)>> \o body : body \in SeqsUpTo(BodyLines, MaxBodyLines)}

InitMarkdown == Init /\ ~file.exists

\* a caller has a text at hand
ReadText ==
    /\ md_step = "idle"
    /\ \E text \in TaskTexts : task_text' = text
    /\ task' = None
    /\ md_step' = "text"
    /\ UNCHANGED <<tasks, validation, run_vars, list_vars>>

\* tasks = parse_existing_tasks(task_text)
ParseExistingTasks ==
    /\ md_step = "text"
    /\ tasks' = md_parse_existing_tasks(task_text)
    /\ md_step' = "parsed"
    /\ UNCHANGED <<task_text, task, validation, run_vars, list_vars>>

\* prerequisites and subtasks of a record that is written
MaxItems == 2

Optional(S) == {None} \cup {Some(x) : x \in S}

\* valid tasks: a title, a positive id, a priority of the enum, the optional
\* fields set or None, any prerequisites and subtasks
RoundTripTasks ==
    {MdTask("T", c, 1, Some(p), a, cd, sd, fd, et, d, PyList(pre), PyDict(subs), <<>>) :
        c \in BOOLEAN, p \in {"Critical", "Low"}, a \in Optional({"ann"}),
        cd \in Optional({DateText("", 1)}), sd \in Optional({DateText("", 1)}),
        fd \in Optional({DateText("", 2)}),
        et \in Optional({"2 hours"}), d \in Optional({"Repair the parser"}),
        pre \in SeqsUpTo({"Task 2", "Task 3"}, MaxItems),
        subs \in DictsUpTo({"a", "b"}, BOOLEAN, MaxItems)}

\* task_text = format_task_block(task)
FormatTaskBlock ==
    /\ md_step = "idle"
    /\ \E t \in RoundTripTasks :
          /\ task' = Some(t)
          /\ task_text' = md_format_task_block(t)
    /\ md_step' = "text"
    /\ UNCHANGED <<tasks, validation, run_vars, list_vars>>

\* the records a caller builds to have them validated: every field that
\* validate_task_data looks at, right and wrong
DateTexts == {DateText("", 1), DateText("", 2), DateText("month13", 0), DateText("words", 0)}

ValidationTasks ==
    {MdTask(title, c, id, p, None, cd, sd, fd, et, None, PyList(<<>>), PyDict(subs), <<>>) :
        title \in {"", "T"}, c \in BOOLEAN, id \in {-1, 0, 1},
        p \in Optional({"High", "Urgent"}),
        cd \in Optional(DateTexts), sd \in Optional(DateTexts),
        fd \in Optional({DateText("", 2), DateText("words", 0)}),
        et \in Optional({"soon"}),
        subs \in DictsUpTo({"a"}, BOOLEAN, 1)}

\* validation = validate_task_data(task), for a record the caller built
ValidateTaskData ==
    /\ md_step = "idle"
    /\ \E t \in ValidationTasks :
          /\ task' = Some(t)
          /\ validation' = validate_task_data(t)
    /\ md_step' = "validated"
    /\ UNCHANGED <<task_text, tasks, run_vars, list_vars>>

\* validation = validate_task_data(task), for a record of the parser
ValidateParsed ==
    /\ md_step = "parsed"
    /\ ~tasks.raised
    /\ \E i \in 1..Len(tasks.tasks) :
          /\ task' = Some(tasks.tasks[i].val)
          /\ validation' = validate_task_data(tasks.tasks[i].val)
    /\ md_step' = "validated parsed"
    /\ UNCHANGED <<task_text, tasks, run_vars, list_vars>>

NextMarkdown ==
    ReadText \/ FormatTaskBlock \/ ParseExistingTasks \/ ValidateTaskData \/ ValidateParsed

SpecMarkdown == InitMarkdown /\ [][NextMarkdown]_vars

\* ------------------------------------------------------------------------
\* A TaskList that is built, archived from and validated
\* ------------------------------------------------------------------------
\* tasks held by a TaskList, the archive included
MaxTasks == 3

\* the tasks a caller adds: two ids, two titles, and a critical task without
\* prerequisites or a low one with a prerequisite among the titles
NewTasks ==
    {Task(id, title, pp[1], "pending", None, None, None, pp[2], <<>>) :
        id \in {1, 2}, title \in {"A", "B"},
        pp \in {<<"Critical", <<>>>>, <<"Low", <<"A">>>>, <<"Low", <<"B">>>>}}

\* task_list.add_task(Task(data))
AddTask ==
    /\ Len(get_all_tasks(task_list)) < MaxTasks
    /\ \E t \in NewTasks : task_list' = add_task(task_list, t)
    /\ list_validation' = NoValidation
    /\ list_step' = "building"
    /\ list_result' = NoResult
    /\ UNCHANGED <<run_vars, md_vars>>

\* task_list.archive_task(task_id), for an id that is found
ArchiveTask ==
    /\ \E task_id \in {get_all_tasks(task_list)[i].id : i \in 1..Len(get_all_tasks(task_list))} :
          /\ \/ FirstWithId(get_all_tasks(task_list), task_id) <= Len(get_active_tasks(task_list))
             \/ Len(get_all_tasks(task_list)) < MaxTasks
          /\ task_list' = archive_task(task_list, task_id, clock)
    /\ list_validation' = NoValidation
    /\ list_step' = "building"
    /\ list_result' = NoResult
    /\ UNCHANGED <<run_vars, md_vars>>

\* list_validation = validate_task_list(task_list)
ValidateTaskList ==
    /\ list_step = "building"
    /\ list_validation' = validate_task_list(task_list)
    /\ list_step' = "validated"
    /\ UNCHANGED <<task_list, list_result, run_vars, md_vars>>

NextTaskList == AddTask \/ ArchiveTask \/ ValidateTaskList

SpecTaskList == InitMarkdown /\ [][NextTaskList]_vars

\* ------------------------------------------------------------------------
\* A TaskList of tasks that depend on each other, built and validated
\* ------------------------------------------------------------------------
\* tasks held by a TaskList whose prerequisites are followed
MaxGraphTasks == 4

\* TaskList.get_next_task_id: 1 for an empty list, else the largest id + 1
TaskListNextId(tl) ==
    IF get_all_tasks(tl) = <<>> THEN 1
    ELSE SetMax({get_all_tasks(tl)[i].id : i \in 1..Len(get_all_tasks(tl))}) + 1

\* what a caller adds: a title and the titles it waits for
GraphTasks ==
    {<<"A", <<>>>>, <<"A", <<"B">>>>, <<"A", <<"B", "C">>>>,
     <<"B", <<>>>>, <<"B", <<"A">>>>, <<"B", <<"C">>>>,
     <<"C", <<>>>>, <<"C", <<"A">>>>, <<"C", <<"C">>>>}

\* task_list.add_task(Task({"id": task_list.get_next_task_id(), "title": ...,
\* "prerequisites": ...})): priority and status take their defaults
AddNextTask ==
    /\ Len(get_all_tasks(task_list)) < MaxGraphTasks
    /\ \E g \in GraphTasks :
          task_list' = add_task(task_list,
                                Task(TaskListNextId(task_list), g[1], "Medium", "pending",
                                     None, None, None, g[2], <<>>))
    /\ list_validation' = NoValidation
    /\ list_step' = "building"
    /\ list_result' = NoResult
    /\ UNCHANGED <<run_vars, md_vars>>

NextGraph == AddNextTask \/ ValidateTaskList

SpecGraph == InitMarkdown /\ [][NextGraph]_vars

\* ------------------------------------------------------------------------
\* _check_circular_dependencies, call by call: list_result holds the index i
\* of the task the loop is at, the stack of the calls of
\* _has_circular_dependency that have not returned, the value ret a call has
\* just returned, and the titles the errors name
\* ------------------------------------------------------------------------
\* tasks held by a TaskList whose check is followed call by call
MaxDfsTasks == 3

\* calls of _has_circular_dependency in each other before the interpreter
\* raises RecursionError: sys.getrecursionlimit(), scaled down
MaxRecursion == 6

\* a call: its arguments, and k, the prerequisite the loop is at
\* (0: the call has not looked at visited yet)
Frame(current_task, t, visited) ==
    [current_task |-> current_task, task |-> t, visited |-> visited, k |-> 0]

\* visited is left as it is
PathWithout(visited, current_task) == visited

\* visited = visited | {current_task}
PathWith(visited, current_task) == visited \cup {current_task}

\* _has_circular_dependency(current_task, t, all_tasks, visited) is called
Call(d, current_task, t, visited) ==
    IF Len(d.stack) >= MaxRecursion THEN [d EXCEPT !.raised = TRUE]
    ELSE [d EXCEPT !.stack = Append(@, Frame(current_task, t, visited))]

\* the next step of the interpreter
DfsNext(d, tasks_checked, task_dict) ==
    LET n == Len(d.stack)
        top == d.stack[n]
        popped == SubSeq(d.stack, 1, n - 1)
    IN IF d.ret # None
       THEN IF n = 0
            THEN [d EXCEPT !.errors = IF d.ret[1] THEN Append(@, tasks_checked[d.i].title) ELSE @,
                           !.i = @ + 1,
                           !.ret = None]
            ELSE IF d.ret[1] THEN [d EXCEPT !.stack = popped]
            ELSE [d EXCEPT !.stack[n].k = @ + 1, !.ret = None]
       ELSE IF n = 0
       THEN IF d.i > Len(tasks_checked) THEN [d EXCEPT !.done = TRUE]
            ELSE Call(d, tasks_checked[d.i].title, tasks_checked[d.i], {})
       ELSE IF top.k = 0
       THEN IF top.current_task \in top.visited
            THEN [d EXCEPT !.stack = popped, !.ret = Some(TRUE)]
            ELSE [d EXCEPT !.stack[n].visited = PathWith(top.visited, top.current_task),
                           !.stack[n].k = 1]
       ELSE IF top.k > Len(top.task.prerequisites)
       THEN [d EXCEPT !.stack = popped, !.ret = Some(FALSE)]
       ELSE IF top.task.prerequisites[top.k] \in DOMAIN task_dict
       THEN Call(d, top.task.prerequisites[top.k], task_dict[top.task.prerequisites[top.k]],
                 top.visited)
       ELSE [d EXCEPT !.stack[n].k = @ + 1]

\* task_list.add_task(...), as AddNextTask, while the list is built
AddDfsTask ==
    /\ list_step = "building"
    /\ Len(get_all_tasks(task_list)) < MaxDfsTasks
    /\ \E g \in GraphTasks :
          task_list' = add_task(task_list,
                                Task(TaskListNextId(task_list), g[1], "Medium", "pending",
                                     None, None, None, g[2], <<>>))
    /\ UNCHANGED <<list_validation, list_step, list_result, run_vars, md_vars>>

\* _check_circular_dependencies(task_list.get_all_tasks(), errors) is called
StartCheck ==
    /\ list_step = "building"
    /\ list_result' = [call |-> "_check_circular_dependencies", i |-> 1, stack |-> <<>>,
                       ret |-> None, errors |-> <<>>, raised |-> FALSE, done |-> FALSE]
    /\ list_step' = "checking"
    /\ UNCHANGED <<task_list, list_validation, run_vars, md_vars>>

\* the interpreter takes a step
DfsStep ==
    /\ list_step = "checking"
    /\ list_result' = DfsNext(list_result, get_all_tasks(task_list),
                              TaskDict(get_all_tasks(task_list)))
    /\ list_step' = IF list_result'.raised THEN "raised"
                    ELSE IF list_result'.done THEN "checked"
                    ELSE "checking"
    /\ UNCHANGED <<task_list, list_validation, run_vars, md_vars>>

NextDfs == AddDfsTask \/ StartCheck \/ DfsStep

\* a call that has begun runs on: the function is sequential code
SpecDfs == InitMarkdown /\ [][NextDfs]_vars /\ WF_vars(DfsStep)

\* ------------------------------------------------------------------------
\* A TaskList that is built, archived from and searched
\* ------------------------------------------------------------------------
\* what a caller adds: a priority, and subtasks or none
PlainTasks ==
    {<<priority, subtasks>> :
        priority \in {"Critical", "Low"}, subtasks \in {<<>>, <<Subtask("s", FALSE)>>}}

AddPlainTask ==
    /\ Len(get_all_tasks(task_list)) < MaxTasks
    /\ \E g \in PlainTasks :
          task_list' = add_task(task_list,
                                Task(TaskListNextId(task_list), "A", g[1], "pending",
                                     None, None, None, <<>>, g[2]))
    /\ list_validation' = NoValidation
    /\ list_step' = "building"
    /\ list_result' = NoResult
    /\ UNCHANGED <<run_vars, md_vars>>

\* the filters that are tried
SearchCriteria ==
    {Criteria(priority, status, None, has_subtasks, include_archived) :
        priority \in Optional({"Critical"}), status \in Optional({"completed"}),
        has_subtasks \in Optional({FALSE}), include_archived \in BOOLEAN}

\* list_result = find_tasks_by_criteria(task_list, ...)
FindTasks ==
    /\ list_step = "building"
    /\ \E c \in SearchCriteria :
          list_result' = [call |-> "find_tasks_by_criteria", criteria |-> c,
                          tasks |-> find_tasks_by_criteria(task_list, c)]
    /\ list_step' = "searched"
    /\ UNCHANGED <<task_list, list_validation, run_vars, md_vars>>

NextSearch == AddPlainTask \/ ArchiveTask \/ FindTasks

SpecSearch == InitMarkdown /\ [][NextSearch]_vars

\* ------------------------------------------------------------------------
\* A TaskList that is built, archived from, written to a dict and read back
\* ------------------------------------------------------------------------
\* list_result = TaskList(task_list.to_dict()), as save_yaml_file and
\* parse_yaml_file do through the file
SaveAndLoad ==
    /\ list_step = "building"
    /\ \E loaded \in {TaskListOfData(TaskListToDict(task_list))} :
          list_result' = [call |-> "TaskList(to_dict())", raised |-> loaded.raised,
                          task_list |-> IF loaded.raised THEN EmptyTaskList ELSE loaded.task_list]
    /\ list_step' = "loaded"
    /\ UNCHANGED <<task_list, list_validation, run_vars, md_vars>>

NextSave == AddPlainTask \/ ArchiveTask \/ SaveAndLoad

SpecSave == InitMarkdown /\ [][NextSave]_vars

\* ------------------------------------------------------------------------
\* What the properties speak about
\* ------------------------------------------------------------------------
\* the time the last run read
LastNow == clock - 1

\* the (file, test, status) triples of the last run
RunTriples ==
    UNION {{<<results[i].key, results[i].val[j].key, results[i].val[j].val>> :
                j \in 1..Len(results[i].val)} : i \in 1..Len(results)}

\* file::test is in a list of the report
Listed(list, f, t) == \E i \in 1..Len(list) : list[i] = <<f, t>>

\* the open record of f has the subtask t with the checkbox c
OpenRecordHolds(f, t, c) ==
    /\ f \in DOMAIN existing
    /\ \E k \in 1..Len(existing[f].subtasks) : existing[f].subtasks[k] = Entry(t, c)

\* the open record of f has a subtask t
OpenRecordNames(f, t) == OpenRecordHolds(f, t, TRUE) \/ OpenRecordHolds(f, t, FALSE)

\* the results of the last run for the file f
ResultsOf(f) == results[CHOOSE i \in 1..Len(results) : results[i].key = f].val

IsSubtaskLine(l) == l.k = "sub"

\* the subtask lines of a block, in order
SubLines(block) == SelectSeq(block, IsSubtaskLine)

BlockFile(block) == block[1].s

BlockChecked(block) == block[1].b

BlockField(block, k) == block[CHOOSE i \in 1..Len(block) : block[i].k = k]

\* the blocks of the last run that update an open record
MergedBlocks == {b \in 1..Len(new_blocks) : BlockFile(new_blocks[b]) \in DOMAIN existing}

\* the places of the text where the block stands
Occurrences(text, block) ==
    {i \in 1..(Len(text) - Len(block) + 1) : SubSeq(text, i, i + Len(block) - 1) = block}

\* the FAILED tests of the run of f that the open record of f does not name
NewFailures(f) ==
    LET IsNew(e) == e.val = "FAILED" /\ ~OpenRecordNames(f, e.key)
    IN SelectSeq(ResultsOf(f), IsNew)

\* ------------------------------------------------------------------------
\* C2: for every (file, test) pair of the run, file::test is in newly_fixed
\* exactly when the test PASSED and the open record of the file holds it as
\* an unchecked subtask, and in newly_broken exactly when the test FAILED and
\* the file has no open record or the record has no subtask of that name.
\* ------------------------------------------------------------------------
C2_Classification ==
    phase = "ran" =>
        \A x \in RunTriples :
            /\ Listed(report.newly_fixed, x[1], x[2])
                  <=> (x[3] = "PASSED" /\ OpenRecordHolds(x[1], x[2], FALSE))
            /\ Listed(report.newly_broken, x[1], x[2])
                  <=> (x[3] = "FAILED" /\ ~OpenRecordNames(x[1], x[2]))

\* the scenario of the specification: foo unchecked, bar checked; foo and bar pass, baz fails
C2_Witness ==
    /\ phase = "ran"
    /\ results = <<Entry("a.py", <<Entry("t1", "PASSED"), Entry("t2", "PASSED"),
                                   Entry("t3", "FAILED")>>)>>
    /\ "a.py" \in DOMAIN existing
    /\ existing["a.py"].subtasks = <<Entry("t1", FALSE), Entry("t2", TRUE)>>
    /\ report = [newly_fixed |-> <<<<"a.py", "t1">>>>,
                 newly_broken |-> <<<<"a.py", "t3">>>>,
                 still_failing |-> <<>>]

\* ------------------------------------------------------------------------
\* C3: file::test is in still_failing exactly when the test FAILED and is an
\* unchecked subtask of the open record of the file; a FAILED test recorded
\* as a checked subtask is not in still_failing.
\* ------------------------------------------------------------------------
C3_StillFailing ==
    phase = "ran" =>
        \A x \in RunTriples :
            Listed(report.still_failing, x[1], x[2])
               <=> (x[3] = "FAILED" /\ OpenRecordHolds(x[1], x[2], FALSE))

\* ------------------------------------------------------------------------
\* C5: the subtasks of a merged block are the subtasks of the open record,
\* same names in the same order, followed by exactly the FAILED tests of the
\* run that the record does not name, each unchecked, in the order of the run.
\* ------------------------------------------------------------------------
C5_AppendOnly ==
    phase = "ran" =>
        \A b \in MergedBlocks :
            LET f == BlockFile(new_blocks[b])
                S == existing[f].subtasks
                new == NewFailures(f)
                sub == SubLines(new_blocks[b])
            IN /\ Len(sub) = Len(S) + Len(new)
               /\ \A i \in 1..Len(S) : sub[i].s = S[i].key
               /\ \A j \in 1..Len(new) : sub[Len(S) + j] = SubtaskLine(new[j].key, FALSE)

\* two subtasks are kept in their order and a new failure comes after them, in a written ledger
C5_Witness ==
    /\ phase = "ran"
    /\ ~dry_run
    /\ file # before
    /\ \E b \in MergedBlocks :
          /\ Len(existing[BlockFile(new_blocks[b])].subtasks) = 2
          /\ Len(NewFailures(BlockFile(new_blocks[b]))) = 1
          /\ Len(SubLines(new_blocks[b])) = 3

\* ------------------------------------------------------------------------
\* C6: in a merged block the checkbox of every subtask of the open record is
\* unchecked iff the test FAILED in the run, and checked otherwise, also when
\* the run does not report the test; the checkbox of the record has no part.
\* ------------------------------------------------------------------------
C6_FlagsFromRun ==
    phase = "ran" =>
        \A b \in MergedBlocks :
            LET f == BlockFile(new_blocks[b])
                S == existing[f].subtasks
                sub == SubLines(new_blocks[b])
            IN /\ Len(sub) >= Len(S)
               /\ \A i \in 1..Len(S) :
                     sub[i].b <=> <<f, S[i].key, "FAILED">> \notin RunTriples

\* an unchecked subtask the run does not report is checked, a checked subtask that fails is unchecked
C6_Witness ==
    /\ phase = "ran"
    /\ \E b \in MergedBlocks :
          LET f == BlockFile(new_blocks[b])
              S == existing[f].subtasks
              sub == SubLines(new_blocks[b])
          IN /\ Len(S) = 2
             /\ ~S[1].val /\ S[1].key \notin Keys(ResultsOf(f)) /\ sub[1].b
             /\ S[2].val /\ <<f, S[2].key, "FAILED">> \in RunTriples /\ ~sub[2].b

\* ------------------------------------------------------------------------
\* C7: in every block of a run the parent checkbox is checked iff every
\* subtask of the block is checked, iff the file has no FAILED test in the run.
\* ------------------------------------------------------------------------
C7_ParentCheckbox ==
    phase = "ran" =>
        \A b \in 1..Len(new_blocks) :
            LET block == new_blocks[b]
                sub == SubLines(block)
                failing == \E x \in RunTriples : x[1] = BlockFile(block) /\ x[3] = "FAILED"
            IN /\ BlockChecked(block) <=> (\A i \in 1..Len(sub) : sub[i].b)
               /\ BlockChecked(block) <=> ~failing

\* the last failing subtask passes: both subtasks and the parent are checked in the written ledger
C7_Witness ==
    /\ phase = "ran"
    /\ ~dry_run
    /\ file # before
    /\ \E b \in MergedBlocks :
          /\ BlockChecked(new_blocks[b])
          /\ Len(SubLines(new_blocks[b])) = 2
          /\ Len(ResultsOf(BlockFile(new_blocks[b]))) = 1
          /\ Occurrences(file.text, new_blocks[b]) # {}

\* ------------------------------------------------------------------------
\* C8: in every block of a run the Finish Date is the time of the run when
\* the parent checkbox is checked, and None when it is unchecked, whatever
\* finish date the open record carried.
\* ------------------------------------------------------------------------
C8_FinishDate ==
    phase = "ran" =>
        \A b \in 1..Len(new_blocks) :
            BlockField(new_blocks[b], "finish").n
               = IF BlockChecked(new_blocks[b]) THEN LastNow ELSE NoDate

\* ------------------------------------------------------------------------
\* C4: a file whose tests all PASSED and that has no open record gets no
\* block and no id, and the run ends as the run without that file does: the
\* same blocks with the same ids, the same return value, the same ledger.
\* ------------------------------------------------------------------------
\* the files of the last run with every test PASSED and no open record
HealthyNewFiles ==
    {i \in 1..Len(results) :
        /\ results[i].key \notin DOMAIN existing
        /\ \A j \in 1..Len(results[i].val) : results[i].val[j].val = "PASSED"}

Without(seq, i) == SubSeq(seq, 1, i - 1) \o SubSeq(seq, i + 1, Len(seq))

C4_HealthyFileSkipped ==
    phase = "ran" =>
        \A i \in HealthyNewFiles :
            /\ \A b \in 1..Len(new_blocks) : BlockFile(new_blocks[b]) # results[i].key
            /\ LET u == update_tasks_file(Without(results, i), existing, dry_run, before, LastNow)
               IN new_blocks = u.new_blocks /\ returned = u.returned /\ file = u.file

\* a healthy file without history comes first in a run that writes a new record for the other file
C4_Witness ==
    /\ phase = "ran"
    /\ ~dry_run
    /\ file # before
    /\ Len(results) = 2
    /\ 1 \in HealthyNewFiles
    /\ Len(new_blocks) = 1
    /\ BlockFile(new_blocks[1]) = results[2].key
    /\ BlockField(new_blocks[1], "id").n = get_next_task_id(before.text)

\* ------------------------------------------------------------------------
\* C9: from a ledger whose ids are positive and pairwise distinct, a run that
\* writes leaves a ledger whose ids are positive and pairwise distinct; an
\* updated record keeps its id and the k-th new record gets M + k, M being
\* the largest id of the ledger before the run.
\* ------------------------------------------------------------------------
IsIdLine(l) == l.k = "id"

\* the ids of the task blocks of a text, in order
TaskIds(text) == [i \in 1..Len(SelectSeq(text, IsIdLine)) |-> SelectSeq(text, IsIdLine)[i].n]

PositiveDistinct(ids) ==
    /\ \A i \in 1..Len(ids) : ids[i] > 0
    /\ \A i, j \in 1..Len(ids) : i # j => ids[i] # ids[j]

\* the blocks of the last run that are new records, in order
IsNewRecord(block) == BlockFile(block) \notin DOMAIN existing

C9_IdsPositiveUnique ==
    (phase = "ran" /\ ~dry_run /\ PositiveDistinct(TaskIds(before.text))) =>
        /\ PositiveDistinct(TaskIds(file.text))
        /\ \A b \in MergedBlocks :
              BlockField(new_blocks[b], "id").n = existing[BlockFile(new_blocks[b])].task_id
        /\ LET fresh == SelectSeq(new_blocks, IsNewRecord)
               M == SetMax({0} \cup {TaskIds(before.text)[i] : i \in 1..Len(TaskIds(before.text))})
           IN \A k \in 1..Len(fresh) : BlockField(fresh[k], "id").n = M + k

\* ------------------------------------------------------------------------
\* C10: in the regenerated document the five section headers stand once each
\* in the order Critical, High, Medium, Low, Archive, and every block of the
\* run stands exactly once, under the section of its own priority.
\* ------------------------------------------------------------------------
IsSectionHeader(l) == l.k \in {"section", "archive"}

\* the last section header above line i, BlankLine when there is none
SectionAbove(text, i) ==
    LET above == {j \in 1..(i - 1) : IsSectionHeader(text[j])}
    IN IF above = {} THEN BlankLine ELSE text[SetMax(above)]

C10_Sections ==
    (phase = "ran" /\ file # before) =>
        /\ SelectSeq(file.text, IsSectionHeader)
              = <<SectionLine("Critical"), SectionLine("High"), SectionLine("Medium"),
                  SectionLine("Low"), ArchiveLine>>
        /\ \A b \in 1..Len(new_blocks) :
              /\ Cardinality(Occurrences(file.text, new_blocks[b])) = 1
              /\ \A i \in Occurrences(file.text, new_blocks[b]) :
                    SectionAbove(file.text, i)
                       = SectionLine(BlockField(new_blocks[b], "priority").s)

\* ------------------------------------------------------------------------
\* C1: after a run that updates the ledger with the results R, the next run
\* that updates it with the same R reports no changes and leaves the ledger
\* as it is.
\* ------------------------------------------------------------------------
C1_Idempotent ==
    [][(phase = "ran" /\ ~dry_run /\ ~dry_run' /\ results' = results)
          => (~returned' /\ file' = file)]_vars

\* ------------------------------------------------------------------------
\* C11: when the ledger has a first and a second separator line, the
\* rewritten document begins with the original lines before the first
\* separator and ends with the original second separator line and every
\* line after it, all of them unchanged.
\* ------------------------------------------------------------------------
\* the last n lines of a text
LastLines(text, n) == SubSeq(text, Len(text) - n + 1, Len(text))

C11_FramePreserved ==
    (phase = "ran" /\ file # before /\ before.exists) =>
        LET old == before.text
            first == FindSeparator(old, 1)
            second == IF first > 0 THEN FindSeparator(old, first + 1) ELSE 0
            kept == Len(old) - second + 1
        IN (first > 0 /\ second > 0) =>
              /\ Len(file.text) >= first - 1 + kept
              /\ SubSeq(file.text, 1, first - 1) = SubSeq(old, 1, first - 1)
              /\ LastLines(file.text, kept) = LastLines(old, kept)

\* ------------------------------------------------------------------------
\* C12: a run that writes deletes no task: every task block of the ledger
\* before the run is a task of the ledger after it, and the blocks of
\* completed tasks, of tasks that are no test tasks and of open test tasks
\* whose file is not in the run stand in it unchanged.
\* ------------------------------------------------------------------------
IsTaskStart(l) == l.k \in {"header", "task"}

\* the lines where a task block starts
TaskStarts(text) == {i \in 1..Len(text) : IsTaskStart(text[i])}

\* the block that starts at line i: up to the next blank line or task line
BlockAt(text, i) ==
    LET stops == {j \in (i + 1)..Len(text) : text[j].k = "blank" \/ IsTaskStart(text[j])}
        stop == IF stops = {} THEN Len(text) + 1 ELSE CHOOSE j \in stops : \A k \in stops : j <= k
    IN SubSeq(text, i, stop - 1)

C12_NoTaskDeleted ==
    (phase = "ran" /\ ~dry_run /\ file # before /\ before.exists) =>
        \A i \in TaskStarts(before.text) :
            LET block == BlockAt(before.text, i)
            IN /\ \E j \in TaskStarts(file.text) :
                     file.text[j].k = block[1].k /\ file.text[j].s = block[1].s
               /\ (block[1].b \/ block[1].k = "task" \/ block[1].s \notin Keys(results))
                     => Occurrences(file.text, block) # {}

\* ------------------------------------------------------------------------
\* C13: at every moment of a run that updates, the ledger file holds the
\* complete old text or the complete new text, never an empty or partly
\* written one, and the file changes at most once in the run: from the old
\* text to the new text.
\* ------------------------------------------------------------------------
\* the file after the run of the state
NewFile == [exists |-> TRUE, text |-> new_content]

C13_AtomicReplace ==
    /\ [](phase # "start" => (file = before \/ file = NewFile))
    /\ [][file' # file => (file = before' /\ file' = NewFile')]_vars

\* the steps of a run end as the run taken as one step ends
WriteStepsEndAsMain ==
    phase = "ran" =>
        file = update_tasks_file(results, existing, FALSE, before, LastNow).file

LinesOf(f, t) == {i \in 1..Len(output) : output[i].file_path = f /\ output[i].test_name = t}

C15_LastWins ==
    phase = "ran" =>
        \A f \in Files, t \in Tests :
            LinesOf(f, t) # {} =>
                /\ Has(results, f)
                /\ Has(ResultsOf(f), t)
                /\ GetVal(ResultsOf(f), t) = output[SetMax(LinesOf(f, t))].status

\* main() reads the output of every run of the other specifications as meant
OutputForIsRead ==
    \A current_results \in OneRunResults \cup RunResults :
        group_results_by_file(parse_test_results(OutputFor(current_results))) = current_results

\* ------------------------------------------------------------------------
\* C16: parse_existing_tasks of markdown_parser.py never raises: for every
\* text, inline values of Pre-requisites, Prerequisites and Subtasks
\* included, it returns a map of records
\* ------------------------------------------------------------------------
C16_ParserNeverRaises == md_step = "parsed" => ~tasks.raised

\* it raises only on a text where an item comes after a key line that has
\* set the field to a str or to None
C16_RaisesOnlyAfterInlineValue ==
    (md_step = "parsed" /\ tasks.raised) =>
        \E j \in 1..Len(task_text), i \in 1..Len(task_text) :
            /\ j < i
            /\ \/ task_text[j].k = "prereqinline" /\ IsItem(task_text[i])
               \/ task_text[j].k = "subinline" /\ IsSubtask(task_text[i])
\* ------------------------------------------------------------------------
\* C17: markdown round trip: parsing the text format_task_block wrote for a
\* valid task gives exactly one record, equal to the task in every field
\* but raw_block
\* ------------------------------------------------------------------------
SameFields(r, t) == [r EXCEPT !.raw_block = <<>>] = [t EXCEPT !.raw_block = <<>>]

C17_RoundTrip ==
    (md_step = "parsed" /\ task # None) =>
        /\ ~tasks.raised
        /\ Len(tasks.tasks) = 1
        /\ SameFields(tasks.tasks[1].val, task[1])

\* the round trip holds for the tasks whose description and estimated time
\* are set
C17_RoundTripWhenSet ==
    (md_step = "parsed" /\ task # None /\ task[1].description # None
     /\ task[1].estimated_time # None) =>
        /\ ~tasks.raised
        /\ Len(tasks.tasks) = 1
        /\ SameFields(tasks.tasks[1].val, task[1])

\* ------------------------------------------------------------------------
\* C18: validate_task_data gives is_valid = false exactly when a hard-error
\* condition holds: empty title, non-positive id, priority outside the enum,
\* a populated date that fails the ISO-8601 pattern; the soft
\* inconsistencies never make is_valid false
\* ------------------------------------------------------------------------
FailsPattern(date_value) == date_value # None /\ ~MatchesDatetime(date_value[1])

HardError(t) ==
    \/ t.title = ""
    \/ t.task_id <= 0
    \/ t.priority = None \/ t.priority[1] \notin valid_priorities
    \/ FailsPattern(t.create_date) \/ FailsPattern(t.start_date) \/ FailsPattern(t.finish_date)

C18_InvalidIffHardError ==
    (md_step = "validated" /\ ~validation.raised) =>
        (validation.is_valid <=> ~HardError(task[1]))

\* with "malformed" read as "names no date", whatever the pattern says
NamesNoDate(date_value) == date_value # None /\ ~IsIsoDate(date_value[1])

C18_InvalidIffNoDate ==
    (md_step = "validated" /\ ~validation.raised) =>
        (validation.is_valid <=>
            ~(\/ task[1].title = ""
              \/ task[1].task_id <= 0
              \/ task[1].priority = None \/ task[1].priority[1] \notin valid_priorities
              \/ NamesNoDate(task[1].create_date) \/ NamesNoDate(task[1].start_date)
              \/ NamesNoDate(task[1].finish_date)))

\* what the code does: beside the four conditions, a create or start date
\* that matches the pattern and names no date is an error when both are set
C18_InvalidIffHardErrorOrUnreadPair ==
    (md_step = "validated" /\ ~validation.raised) =>
        (validation.is_valid <=>
            ~(\/ HardError(task[1])
              \/ /\ task[1].create_date # None
                 /\ task[1].start_date # None
                 /\ ~(IsIsoDate(task[1].create_date[1]) /\ IsIsoDate(task[1].start_date[1]))))

\* ------------------------------------------------------------------------
\* C19: validate_task_data never raises on a record of the parser, whatever
\* sentinel or None its fields hold: it returns a result in which is_valid
\* is true iff errors is empty
\* ------------------------------------------------------------------------
C19_ValidationNeverRaises ==
    md_step = "validated parsed" =>
        /\ ~validation.raised
        /\ validation.is_valid <=> (validation.errors = <<>>)

\* it raises exactly on the records whose subtasks are a str or None, and a
\* result it returns is valid iff it holds no error
C19_RaisesOnSubtasksNoDict ==
    md_step \in {"validated", "validated parsed"} =>
        /\ validation.raised <=> task[1].subtasks.t # "dict"
        /\ ~validation.raised => (validation.is_valid <=> (validation.errors = <<>>))

\* ------------------------------------------------------------------------
\* C20: duplicate ids are a hard error of validate_task_list: when two or
\* more tasks, active or archived, share an id, is_valid is false and the
\* errors name the id and the title of every task of the group; with
\* pairwise distinct ids there is no duplicate-id error
\* ------------------------------------------------------------------------
DuplicateIdErrors ==
    {list_validation.errors[i] : i \in {j \in 1..Len(list_validation.errors) :
                                          list_validation.errors[j].kind = "Duplicate task ID"}}

\* the titles a message names
Named(e) == {e.title} \cup {e.others[i] : i \in 1..Len(e.others)}

SharedIds(all_tasks) ==
    {all_tasks[i].id : i \in {j \in 1..Len(all_tasks) :
                                \E k \in 1..Len(all_tasks) : k # j /\ all_tasks[k].id = all_tasks[j].id}}

C20_DuplicateIdsAreErrors ==
    list_step = "validated" =>
        LET all_tasks == get_all_tasks(task_list) IN
        /\ \A id \in SharedIds(all_tasks) :
              /\ ~list_validation.is_valid
              /\ \A i \in 1..Len(all_tasks) :
                    all_tasks[i].id = id =>
                        \E e \in DuplicateIdErrors : e.id = id /\ all_tasks[i].title \in Named(e)
        /\ SharedIds(all_tasks) = {} => DuplicateIdErrors = {}

\* a validated list where an archived task, an active task and a third one
\* share an id
C20_Witness ==
    /\ list_step = "validated"
    /\ \E id \in {1, 2} :
          /\ \E i \in 1..Len(task_list.archive) : task_list.archive[i].id = id
          /\ \E i \in 1..Len(get_active_tasks(task_list)) : get_active_tasks(task_list)[i].id = id
          /\ Cardinality({i \in 1..Len(get_all_tasks(task_list)) :
                             get_all_tasks(task_list)[i].id = id}) = 3
    /\ ~list_validation.is_valid

\* ------------------------------------------------------------------------
\* C21: unresolved prerequisites are a hard error of validate_task_list: for
\* every task and every prerequisite of it that is no title of the set,
\* is_valid is false and an error names the task's title and the missing
\* title; no such error is there for a prerequisite that is a title
\* ------------------------------------------------------------------------
UnknownPrerequisiteErrors ==
    {list_validation.errors[i] : i \in {j \in 1..Len(list_validation.errors) :
                                          list_validation.errors[j].kind = "has unknown prerequisite"}}

\* the (title, prerequisite) pairs of the list whose prerequisite is no title
UnresolvedPairs(all_tasks) ==
    UNION {{<<all_tasks[i].title, all_tasks[i].prerequisites[j]>> :
               j \in {k \in 1..Len(all_tasks[i].prerequisites) :
                        \A n \in 1..Len(all_tasks) :
                            all_tasks[n].title # all_tasks[i].prerequisites[k]}} :
           i \in 1..Len(all_tasks)}

C21_UnknownPrerequisitesAreErrors ==
    list_step = "validated" =>
        LET pairs == UnresolvedPairs(get_all_tasks(task_list)) IN
        /\ pairs # {} => ~list_validation.is_valid
        /\ {<<e.title, e.others[1]>> : e \in UnknownPrerequisiteErrors} = pairs

\* a validated list with an archived task where one task asks for a title
\* that is missing and another for a title that is there
C21_Witness ==
    /\ list_step = "validated"
    /\ UnresolvedPairs(get_all_tasks(task_list)) # {}
    /\ task_list.archive # <<>>
    /\ \E i \in 1..Len(get_all_tasks(task_list)) :
          /\ get_all_tasks(task_list)[i].prerequisites # <<>>
          /\ <<get_all_tasks(task_list)[i].title, get_all_tasks(task_list)[i].prerequisites[1]>>
                \notin UnresolvedPairs(get_all_tasks(task_list))
    /\ ~list_validation.is_valid
\* ------------------------------------------------------------------------
\* C22: cycle detection is exact: validate_task_list reports a circular
\* dependency iff the graph task -> prerequisite over the known titles has a
\* directed cycle, self-loops included
\* ------------------------------------------------------------------------
CircularErrors ==
    {list_validation.errors[i] : i \in {j \in 1..Len(list_validation.errors) :
                 list_validation.errors[j].kind = "Circular dependency detected involving task"}}

\* title -> prerequisite, for every task and every prerequisite that is a title
TitleEdges(all_tasks) ==
    UNION {{<<all_tasks[i].title, all_tasks[i].prerequisites[j]>> :
               j \in {k \in 1..Len(all_tasks[i].prerequisites) :
                        all_tasks[i].prerequisites[k] \in AllTaskTitles(all_tasks)}} :
           i \in 1..Len(all_tasks)}

\* the pairs joined by a path of n + 1 edges or less
RECURSIVE Paths(_, _)
Paths(E, n) ==
    IF n = 0 THEN E
    ELSE LET shorter == Paths(E, n - 1)
         IN shorter \cup {<<x[1][1], x[2][2]>> : x \in {y \in shorter \X E : y[1][2] = y[2][1]}}

\* the titles that lie on a directed cycle of E
OnCycle(E) == {e[1] : e \in {p \in Paths(E, Cardinality(E)) : p[1] = p[2]}}

C22_CycleDetectionExact ==
    list_step = "validated" =>
        (CircularErrors # {} <=> OnCycle(TitleEdges(get_all_tasks(task_list))) # {})

DistinctTitles(all_tasks) ==
    \A i, j \in 1..Len(all_tasks) : i # j => all_tasks[i].title # all_tasks[j].title

\* it is exact on the lists that hold no title twice
C22_ExactForDistinctTitles ==
    (list_step = "validated" /\ DistinctTitles(get_all_tasks(task_list))) =>
        (CircularErrors # {} <=> OnCycle(TitleEdges(get_all_tasks(task_list))) # {})

\* on every list, an error is reported only if the titles have a cycle
C22_ErrorOnlyWithCycle ==
    list_step = "validated" =>
        (CircularErrors # {} => OnCycle(TitleEdges(get_all_tasks(task_list))) # {})

\* ------------------------------------------------------------------------
\* C23: every circular-dependency error names a title that lies on a cycle;
\* a task that only depends on a task of a cycle is never named
\* ------------------------------------------------------------------------
C23_NamedTitleIsOnCycle ==
    list_step = "validated" =>
        \A e \in CircularErrors : e.title \in OnCycle(TitleEdges(get_all_tasks(task_list)))

\* the titles from which a path of E leads to a title on a cycle
LeadsToCycle(E) ==
    OnCycle(E) \cup {p[1] : p \in {q \in Paths(E, Cardinality(E)) : q[2] \in OnCycle(E)}}

\* what the code names, on lists without a repeated title: the root of every
\* traversal that meets a cycle
C23_NamedTitleLeadsToCycle ==
    (list_step = "validated" /\ DistinctTitles(get_all_tasks(task_list))) =>
        {e.title : e \in CircularErrors} = LeadsToCycle(TitleEdges(get_all_tasks(task_list)))

\* ------------------------------------------------------------------------
\* C24: archive_task moves a task and never deletes or duplicates one: a
\* call that succeeds, also for an id that is archived already, leaves every
\* task in the list exactly once, the archived one in the archive and in no
\* active bucket, and ids that were pairwise distinct stay so
\* ------------------------------------------------------------------------
\* how many tasks of the sequence have the id
CountOfId(q, id) == Cardinality({i \in 1..Len(q) : q[i].id = id})

DistinctIds(q) == \A i, j \in 1..Len(q) : i # j => q[i].id # q[j].id

\* only archive_task changes the archive
C24_ArchiveMovesTasks ==
    [][task_list'.archive # task_list.archive =>
          /\ \A id \in {1, 2} :
                CountOfId(get_all_tasks(task_list'), id) = CountOfId(get_all_tasks(task_list), id)
          /\ Len(get_active_tasks(task_list')) = Len(get_active_tasks(task_list)) - 1
          /\ Len(task_list'.archive) = Len(task_list.archive) + 1
          /\ DistinctIds(get_all_tasks(task_list)) => DistinctIds(get_all_tasks(task_list'))]_vars

\* a call that takes its task from an active bucket does move it
C24_ArchiveMovesActiveTasks ==
    [][(/\ task_list'.archive # task_list.archive
        /\ \E id \in {1, 2} :
              /\ task_list' = archive_task(task_list, id, clock)
              /\ FirstWithId(get_all_tasks(task_list), id) <= Len(get_active_tasks(task_list))) =>
          /\ \A id \in {1, 2} :
                CountOfId(get_all_tasks(task_list'), id) = CountOfId(get_all_tasks(task_list), id)
          /\ Len(get_active_tasks(task_list')) = Len(get_active_tasks(task_list)) - 1
          /\ Len(task_list'.archive) = Len(task_list.archive) + 1
          /\ DistinctIds(get_all_tasks(task_list)) => DistinctIds(get_all_tasks(task_list'))]_vars

\* ------------------------------------------------------------------------
\* C25: find_tasks_by_criteria honours include_archived: without it no task
\* of the archive is in the result, with it every task that matches the
\* filters, active or archived, is in the result exactly once
\* ------------------------------------------------------------------------
\* the tasks of the sequence that match, in order
Matching(q, c) == SelectSeq(q, LAMBDA t : Matches(t, c))

C25_IncludeArchivedHonoured ==
    list_step = "searched" =>
        list_result.tasks =
            IF list_result.criteria.include_archived
            THEN Matching(get_all_tasks(task_list), list_result.criteria)
            ELSE Matching(get_active_tasks(task_list), list_result.criteria)

\* what the code returns: the archived tasks also without include_archived,
\* and twice with it
C25_ArchivedOnceOrTwice ==
    list_step = "searched" =>
        list_result.tasks =
            Matching(get_all_tasks(task_list), list_result.criteria)
            \o (IF list_result.criteria.include_archived
                THEN Matching(task_list.archive, list_result.criteria)
                ELSE <<>>)

\* ------------------------------------------------------------------------
\* C26: structured round trip: for a TaskList built by add_task_to_list,
\* dates defaulted to now, TaskList(L.to_dict()) raises no validation error
\* and gives, bucket by bucket and in order, tasks equal to those of L
\* ------------------------------------------------------------------------
C26_StructuredRoundTrip ==
    list_step = "loaded" =>
        /\ ~list_result.raised
        /\ list_result.task_list = task_list

\* the constructor raises on every list that holds a task
C26_LoadRaisesUnlessEmpty ==
    list_step = "loaded" => (list_result.raised <=> get_all_tasks(task_list) # <<>>)

\* ------------------------------------------------------------------------
\* C27: update_tasks_file returns True exactly when the block computed for
\* some file differs from the existing record of that file in the checkbox
\* of a subtask, in the set of subtasks or in the parent checkbox (a file
\* without a record that gets a block differs); it returns False only when
\* every block shows the subtasks, flags and parent checkbox of its record.
\* ------------------------------------------------------------------------
\* the (name, checkbox) pairs of the subtask lines of a block
BlockSubtasks(block) == {<<SubLines(block)[i].s, SubLines(block)[i].b>> : i \in 1..Len(SubLines(block))}

\* the (name, checkbox) pairs of the subtasks of a record
RecordSubtasks(record) == {<<record.subtasks[i].key, record.subtasks[i].val>> : i \in 1..Len(record.subtasks)}

\* the block shows other subtasks, flags or parent checkbox than the existing record
BlockDiffers(block) ==
    \/ BlockFile(block) \notin DOMAIN existing
    \/ BlockChecked(block) # existing[BlockFile(block)].checked
    \/ BlockSubtasks(block) # RecordSubtasks(existing[BlockFile(block)])

C27_TrueIffBlockDiffers ==
    phase = "ran" => (returned <=> \E b \in 1..Len(new_blocks) : BlockDiffers(new_blocks[b]))

\* what the code does: True only with a block that differs from its record
C27_TrueOnlyWhenBlockDiffers ==
    phase = "ran" => (returned => \E b \in 1..Len(new_blocks) : BlockDiffers(new_blocks[b]))

\* ------------------------------------------------------------------------
\* C28: a task block ends at a blank line followed by a top-level bullet, at
\* a task header, or at the end of the text. Every header line of the text
\* has a record, and the record of a title has the fields that the lines
\* from its header to the first such boundary give and a rawBlock of these
\* lines: a metadata line behind the boundary changes nothing. Stated for
\* the texts that parse_existing_tasks returns a dict for.
\* ------------------------------------------------------------------------
\* a bullet at column 0
IsTopLevelBullet(line) == IsTaskHeader(line) \/ line.k \in {"checkbullet", "toppriority"}

\* the line j ends a block that was opened before it
EndsBlock(lines, j) ==
    \/ IsTaskHeader(lines[j])
    \/ lines[j].k = "blank" /\ j + 1 <= Len(lines) /\ IsTopLevelBullet(lines[j + 1])

\* as EndsBlock, with the bullets that start with "- [" alone
EndsBlockAtCheckbox(lines, j) ==
    \/ IsTaskHeader(lines[j])
    \/ lines[j].k = "blank" /\ j + 1 <= Len(lines) /\ StartsWithCheckbox(lines[j + 1])

\* the first boundary behind the header h, Len(lines) + 1 for the end of the text
BlockEnd(lines, h, Ends(_, _)) ==
    LET js == {j \in (h + 1)..Len(lines) : Ends(lines, j)}
    IN IF js = {} THEN Len(lines) + 1 ELSE CHOOSE j \in js : \A k \in js : j <= k

\* the header lines of the text that are the last of their title
LastHeaders(lines) ==
    {h \in 1..Len(lines) :
        /\ IsTaskHeader(lines[h])
        /\ \A k \in (h + 1)..Len(lines) :
              IsTaskHeader(lines[k]) => TitleOf(lines[k]) # TitleOf(lines[h])}

\* the record without its rawBlock
FieldsOf(record) == [record EXCEPT !.raw_block = <<>>]

\* the record of the header h is the record of the lines h..e-1 alone, e the boundary
RecordFromBlock(lines, h, e) ==
    LET title == TitleOf(lines[h])
        alone == md_parse_existing_tasks(SubSeq(lines, h, e - 1))
    IN /\ Has(tasks.tasks, title)
       /\ ~alone.raised
       /\ FieldsOf(GetVal(tasks.tasks, title)) = FieldsOf(GetVal(alone.tasks, title))
       /\ GetVal(tasks.tasks, title).raw_block
             \in {SubSeq(lines, h, e - 1), SubSeq(lines, h, Min(e, Len(lines)))}

C28_BlockEndsAtBoundary ==
    md_step = "parsed" /\ ~tasks.raised =>
        \A h \in LastHeaders(task_text) :
            RecordFromBlock(task_text, h, BlockEnd(task_text, h, EndsBlock))

\* what the code does: of the blank lines, only one followed by a line that
\* starts with "- [" ends a block, in a text the parser does not raise on
C28_BlockEndsAtCheckboxBullet ==
    md_step = "parsed" /\ ~tasks.raised =>
        \A h \in LastHeaders(task_text) :
            RecordFromBlock(task_text, h, BlockEnd(task_text, h, EndsBlockAtCheckbox))

\* ------------------------------------------------------------------------
\* C29: over the runs that write, the ids given to new tasks are strictly
\* increasing in the order they are given, so no id is given to the tasks
\* of two files, also after the first of them has left the ledger.
\* ------------------------------------------------------------------------
C29_AllocatedIdsIncrease ==
    \A i, j \in 1..Len(allocated) : i < j => allocated[i][1] < allocated[j][1]

\* what the code does: a new id is above every id of the text the run reads
C29_AboveIdsOfText ==
    [][\A k \in 1..Len(allocated') :
          k > Len(allocated) /\ file.exists => \A id \in IdMatches(file.text) : allocated'[k][1] > id]_vars

\* ------------------------------------------------------------------------
\* C30: the cycle check ends on every task list, with cycles, self-loops,
\* duplicate titles and prerequisites no task has: a call either returns at
\* once, its title being on the path, or puts its title on the path, so the
\* titles of the calls that are open are distinct, the calls in each other
\* are at most the distinct titles and one, and every check that has begun
\* returns.
\* ------------------------------------------------------------------------
\* the titles of the tasks of the list
TitlesOfList == {get_all_tasks(task_list)[i].title : i \in 1..Len(get_all_tasks(task_list))}

\* the calls that have put their title on the path
OnPath(stack) == {f \in 1..Len(stack) : stack[f].k > 0}

PathBounded ==
    list_step = "checking" =>
        LET stack == list_result.stack
        IN /\ Len(stack) <= Cardinality(TitlesOfList) + 1
           /\ \A f, g \in OnPath(stack) : f # g => stack[f].current_task # stack[g].current_task
           /\ \A f \in OnPath(stack) :
                 stack[f].visited = {stack[g].current_task : g \in {h \in OnPath(stack) : h <= f}}

C30_CycleCheckTerminates ==
    /\ []PathBounded
    /\ [](list_step # "raised")
    /\ (list_step = "checking") ~> (list_step = "checked")

\* the check of a list with a cycle, a title two tasks have and a
\* prerequisite no task has has returned, and named a task
C30_Witness ==
    /\ list_step = "checked"
    /\ list_result.errors # <<>>
    /\ Cardinality(TitlesOfList) < Len(get_all_tasks(task_list))
    /\ \E i \in 1..Len(get_all_tasks(task_list)) :
          \E k \in 1..Len(get_all_tasks(task_list)[i].prerequisites) :
             get_all_tasks(task_list)[i].prerequisites[k] \notin TitlesOfList

\* the titles the calls name are the titles of the errors of the validator
C30_SameErrorsAsValidator ==
    list_step = "checked" =>
        /\ Len(list_result.errors) = Len(check_circular_dependencies(get_all_tasks(task_list)))
        /\ \A i \in 1..Len(list_result.errors) :
              check_circular_dependencies(get_all_tasks(task_list))[i].title = list_result.errors[i]

====
